---------------------------- MODULE Spec2Model ----------------------------
(***************************************************************************)
(* A model of libccli: the line buffer (line.c), the history ring          *)
(* (history.c), the command registry and dispatcher (commands.c) and the   *)
(* event loop with its keystroke decoder (ccli.c).                         *)
(*                                                                         *)
(* Bytes are integers 0..255.  A C string is a sequence of non-zero bytes. *)
(* A char buffer of `size' bytes is a function on 0..size-1.               *)
(***************************************************************************)
EXTENDS Integers, Sequences, FiniteSets, TLC

VARIABLES
    line,       \* struct line_buf: [buf, size, len, pos, start, ub]
    bufsiz,     \* the build's <stdio.h> BUFSIZ, the growth chunk of line.c
    schar,      \* whether the build's char is signed
    file,       \* the bytes of the cache file
    ccli,       \* struct ccli: registry, hooks, history ring
    pc,         \* "setup", "loop", "search" (inside history_search()), "done"
    tab,        \* ccli_loop()'s count of the Tabs typed in a row
    out,        \* what the last step wrote to ccli->out besides the echo of the
                \* line being edited, as a list of strings
    srch,       \* the local variables of history_search() while pc = "search"
    inq,        \* bytes written to the input descriptor and not yet read
    eof,        \* the input descriptor is at its end after inq
    used,       \* [setup, keys, eofs]: calls made before the loop, chunks
                \* typed, reads that met the end of the input
    op,         \* the operation performed by the last step
    opret,      \* the value that operation returned
    calls,      \* the callbacks the last step invoked, in order
    ghost       \* history variables the properties are stated with

vars ==
    <<line, bufsiz, schar, file, tab, out, ccli, pc, srch, inq, eof, used, op, opret, calls,
      ghost>>

---------------------------------------------------------------------------
(* Bounds of the model *)

\* BUFSIZ of the builds explored by SpecLine (glibc has 8192)
LineBufSiz == 2
\* realloc() succeeds only while the buffer stays within this many chunks
MaxChunks == 2
\* BUFSIZ of the build explored by SpecReg
RegBufSiz == 4
\* BUFSIZ of the build explored by SpecHist
HistBufSiz == 4
\* SpecHist: the longest line and search string typed
MaxLine == 2
\* SpecHist: the number of lines added to the history
MaxHistSize == 3
\* how far below entry 0 a repeated reverse search may move its position
MaxBelow == 2
\* ccli-local.h has 256 history entries; the model keeps this many
DEFAULT_HISTORY_MAX == 2
\* Spec: BUFSIZ, calls before the loop, chunks typed, reads at the end of input
LoopBufSiz == 5
MaxSetup == 1
MaxKeys == 3
MaxEofs == 2

---------------------------------------------------------------------------
(* Bytes *)

NUL == 0
CH_SPACE == 32
CH_a == 97
CH_b == 98
CH_BSLASH == 92
CH_SQUOTE == 39
CH_DQUOTE == 34
CH_NL == 10
CH_TAB == 9
CH_SEMI == 59

\* ccli-local.h: what read_char() returns for the keys that are not characters
CHAR_ERROR == -1
CHAR_INTR == -2
CHAR_IGNORE_END == -10
CHAR_DEL == -12
CHAR_UP == -13
CHAR_DOWN == -14
CHAR_RIGHT == -15
CHAR_LEFT == -16
CHAR_HOME == -17
CHAR_END == -18
CHAR_PAGEUP == -19
CHAR_PAGEDOWN == -20
CHAR_DELWORD == -21
CHAR_RIGHT_WORD == -22
CHAR_LEFT_WORD == -23
CHAR_IGNORE_START_H == -24
CHAR_BACKSPACE == -25
CHAR_REVERSE == -26
CHAR_IGNORE_START == -27
CHAR_INSERT == -28
CHAR_DEL_BEGINNING == -29
\* CHAR_NEWLINE tells line_insert() that "\ and newline" was hit
CHAR_NEWLINE == -128
DEFAULT_PAGE_SCROLL == 24

\* <ctype.h> in the C locale
isalnum(c) == (c >= 48 /\ c <= 57) \/ (c >= 65 /\ c <= 90) \/ (c >= 97 /\ c <= 122)
isspace(c) == c = 32 \/ (c >= 9 /\ c <= 13)
isprint(c) == c >= 32 /\ c <= 126

\* The bytes an uninitialised or out-of-bounds location may hold
WildBytes == {NUL, CH_a}

Min(a, b) == IF a < b THEN a ELSE b
Max(a, b) == IF a > b THEN a ELSE b

---------------------------------------------------------------------------
(* line.c: struct line_buf and its operations.                             *)
(* l.ub records that an operation wrote outside the buffer (undefined      *)
(* behaviour); nothing is modelled after that.                             *)

Zeros(n) == [i \in 0 .. n - 1 |-> NUL]

\* line->line[i]; `oob' is what a read outside the allocation yields
At(l, i, oob) == IF i >= 0 /\ i < l.size THEN l.buf[i] ELSE oob

\* line->line[i] = v
Poke(l, i, v) ==
    IF i >= 0 /\ i < l.size
    THEN [l EXCEPT !.buf[i] = v]
    ELSE [l EXCEPT !.ub = TRUE]

\* memmove(line->line + dst, line->line + src, n)
MemMove(l, dst, src, n, oob) ==
    IF n = 0 THEN l
    ELSE IF n < 0 \/ dst < 0 \/ dst + n > l.size THEN [l EXCEPT !.ub = TRUE]
    ELSE [l EXCEPT !.buf = [i \in 0 .. l.size - 1 |->
                               IF i >= dst /\ i < dst + n
                               THEN At(l, i - dst + src, oob)
                               ELSE l.buf[i]]]

\* memset(line->line + dst, v, n)
MemSet(l, dst, v, n) ==
    IF n = 0 THEN l
    ELSE IF n < 0 \/ dst < 0 \/ dst + n > l.size THEN [l EXCEPT !.ub = TRUE]
    ELSE [l EXCEPT !.buf = [i \in 0 .. l.size - 1 |->
                               IF i >= dst /\ i < dst + n THEN v ELSE l.buf[i]]]

\* strncpy(line->line, str, n) with n <= strlen(str): copies n bytes, no NUL
StrNCpy(l, str, n) ==
    IF n = 0 THEN l
    ELSE IF n > l.size THEN [l EXCEPT !.ub = TRUE]
    ELSE [l EXCEPT !.buf = [i \in 0 .. l.size - 1 |->
                               IF i < n THEN str[i + 1] ELSE l.buf[i]]]

line_init(n) ==
    [buf |-> Zeros(n), size |-> n, len |-> 0, pos |-> 0, start |-> 0, ub |-> FALSE]

line_reset(l) ==
    [l EXCEPT !.buf = Zeros(l.size), !.len = 0, !.pos = 0, !.start = 0]

\* realloc(line->line, line->size + BUFSIZ): the new bytes are uninitialised
Realloc(l, chunk, junk) ==
    [l EXCEPT !.buf = [i \in 0 .. l.size + chunk - 1 |->
                          IF i < l.size THEN l.buf[i] ELSE junk[i - l.size]],
              !.size = l.size + chunk]

\* line_insert(): realloc() succeeds when the new size is within `room' (0: the
\* allocation fails), `junk' is what the new memory holds.
\* Returns [l |-> the buffer, ret |-> 0 or -1].
line_insert(l, ch, chunk, room, junk, oob) ==
    IF ch = CHAR_NEWLINE
    THEN IF l.len = 0 \/ At(l, l.len - 1, oob) # CH_BSLASH
         THEN [l |-> l, ret |-> -1]
         ELSE [l |-> [Poke(l, l.len - 1, NUL) EXCEPT
                         !.len = l.len - 1, !.pos = l.len - 1, !.start = l.len - 1],
               ret |-> 0]
    ELSE IF l.len = l.size /\ l.size + chunk > room
    THEN [l |-> l, ret |-> -1]
    ELSE LET g == IF l.len = l.size THEN Realloc(l, chunk, junk) ELSE l
             m == IF g.pos < g.len
                  THEN MemMove(g, g.pos + 1, g.pos, g.len - g.pos, oob)
                  ELSE g
         IN  [l |-> [Poke(m, m.pos, ch % 256) EXCEPT !.pos = m.pos + 1, !.len = m.len + 1],
              ret |-> 0]

\* line_state_escaped(): the buffer ends in an odd number of backslashes
line_state_escaped(l) ==
    LET n == CHOOSE k \in 0 .. l.len :
                /\ \A i \in l.len - k .. l.len - 1 : l.buf[i] = CH_BSLASH
                /\ (k < l.len => l.buf[l.len - k - 1] # CH_BSLASH)
    IN  n % 2 = 1

line_right(l) == IF l.pos < l.len THEN [l EXCEPT !.pos = l.pos + 1] ELSE l

line_left(l) == IF l.pos > l.start THEN [l EXCEPT !.pos = l.pos - 1] ELSE l

line_home(l) == [l EXCEPT !.pos = l.start]

line_end(l) == [l EXCEPT !.pos = l.len]

line_backspace(l, oob) ==
    IF l.pos = l.start THEN l
    ELSE LET m == MemMove(l, l.pos - 1, l.pos, l.len - l.pos, oob)
         IN  [Poke(m, l.len - 1, NUL) EXCEPT !.pos = l.pos - 1, !.len = l.len - 1]

\* the two loops of line_right_word(): each steps pos first, then tests
RECURSIVE SkipRight(_, _, _, _)
SkipRight(l, p, alnum, oob) ==
    IF p < l.len
    THEN IF isalnum(At(l, p + 1, oob)) = alnum
         THEN SkipRight(l, p + 1, alnum, oob)
         ELSE p + 1
    ELSE p

line_right_word(l, oob) ==
    [l EXCEPT !.pos = SkipRight(l, SkipRight(l, l.pos, FALSE, oob), TRUE, oob)]

\* first loop of line_left_word(): pos-- happens even when the test fails
RECURSIVE SkipLeftSep(_, _, _)
SkipLeftSep(l, p, oob) ==
    IF p > l.start
    THEN IF ~isalnum(At(l, p - 1, oob)) THEN SkipLeftSep(l, p - 1, oob) ELSE p - 1
    ELSE p - 1

\* second loop of line_left_word()
RECURSIVE SkipLeftWord(_, _, _)
SkipLeftWord(l, p, oob) ==
    IF p > l.start /\ isalnum(At(l, p, oob)) THEN SkipLeftWord(l, p - 1, oob) ELSE p

line_left_word(l, oob) ==
    LET p == SkipLeftWord(l, SkipLeftSep(l, l.pos, oob), oob)
    IN  [l EXCEPT !.pos = IF ~isalnum(At(l, p, oob)) THEN p + 1 ELSE p]

\* del_words(): l.pos is already the new position.  [l, ret]
del_words(l, old_pos, oob) ==
    LET n == l.len - old_pos
        cut == old_pos - l.pos
        m == MemMove([l EXCEPT !.len = l.len - cut], l.pos, old_pos, n, oob)
    IN  [l |-> MemSet(m, m.len, NUL, cut), ret |-> cut]

line_del_beginning(l, oob) ==
    IF l.pos = l.start THEN [l |-> l, ret |-> 0]
    ELSE del_words(line_home(l), l.pos, oob)

line_del_word(l, oob) ==
    IF l.pos = l.start THEN [l |-> l, ret |-> 0]
    ELSE del_words(line_left_word(l, oob), l.pos, oob)

line_del(l, oob) ==
    IF l.pos = l.len THEN l
    ELSE LET m == MemMove(l, l.pos, l.pos + 1, l.len - l.pos, oob)
         IN  [Poke(m, l.len - 1, NUL) EXCEPT !.len = l.len - 1]

line_replace(l, str) ==
    LET n == IF Len(str) >= l.size THEN l.size - 1 ELSE Len(str)
        c == StrNCpy(l, str, n)
        z == IF n < l.len THEN MemSet(c, n, NUL, l.len - n) ELSE c
    IN  [z EXCEPT !.len = n, !.pos = n]


\* ccli.c ccli_line_inject(): [l, ret]; ret is the OR of line_insert()'s returns
RECURSIVE InjectFrom(_, _, _, _, _, _, _)
InjectFrom(l, str, i, chunk, room, junk, oob) ==
    IF i > Len(str) THEN [l |-> l, ret |-> 0]
    ELSE LET r == line_insert(l, str[i], chunk, room, junk, oob)
             t == InjectFrom(r.l, str, i + 1, chunk, room, junk, oob)
         IN  [l |-> t.l, ret |-> IF r.ret # 0 \/ t.ret # 0 THEN -1 ELSE 0]

ccli_line_inject(l, str, pos, chunk, room, junk, oob) ==
    LET m == IF pos >= 0
             THEN [l EXCEPT !.pos = IF pos > l.len THEN l.len ELSE pos]
             ELSE l
    IN  InjectFrom(m, str, 1, chunk, room, junk, oob)

---------------------------------------------------------------------------
(* C strings *)

\* a NULL pointer where a string is expected
NIL == <<-1>>

\* s[i-1] of the C string s: the byte after the last one is the terminator
CAt(s, i) == IF i >= 1 /\ i <= Len(s) THEN s[i] ELSE NUL

\* line->line read as a C string: the bytes before the first NUL
RECURSIVE CStrFrom(_, _)
CStrFrom(l, i) ==
    IF i >= l.size \/ l.buf[i] = NUL THEN <<>>
    ELSE <<l.buf[i]>> \o CStrFrom(l, i + 1)

CStr(l) == CStrFrom(l, 0)

\* no byte of the allocation is 0: reading line->line as a string runs past it
Unterminated(l) == \A i \in 0 .. l.size - 1 : l.buf[i] # NUL

\* line->line as a callback reads it: when the allocation holds no 0 the read
\* goes on into the memory after it, which holds `oob' and then a 0
LineStr(l, oob) ==
    IF Unterminated(l) /\ oob # NUL THEN CStr(l) \o <<oob>> ELSE CStr(l)

\* strstr(h, n): the offset of the first occurrence of n in h, or -1
StrStr(h, n) ==
    LET hits == {k \in 0 .. Len(h) - Len(n) : SubSeq(h, k + 1, k + Len(n)) = n}
    IN  IF hits = {} THEN -1 ELSE CHOOSE k \in hits : \A j \in hits : k <= j

---------------------------------------------------------------------------
(* line.c: ccli_line_parse_multi(), the tokeniser.  Positions are 1-based  *)
(* indexes into the line; delim is NIL when no delimiter is given.         *)

match_delim(s, p, delim) ==
    /\ delim # NIL
    /\ \A k \in 1 .. Len(delim) : CAt(s, p + k - 1) = delim[k]

RECURSIVE SkipSpaces(_, _)
SkipSpaces(s, p) == IF isspace(CAt(s, p)) THEN SkipSpaces(s, p + 1) ELSE p

\* the for loop that finds the end of a word: [p, q, last]
RECURSIVE ScanWord(_, _, _, _, _)
ScanWord(s, p, q, last, delim) ==
    IF last \/ CAt(s, p) = NUL \/ (q = 0 /\ match_delim(s, p, delim))
    THEN [p |-> p, q |-> q, last |-> last]
    ELSE LET c == CAt(s, p)
         IN  IF c = CH_SQUOTE \/ c = CH_DQUOTE
             THEN ScanWord(s, p + 1, IF q = 0 THEN c ELSE IF c = q THEN 0 ELSE q,
                           FALSE, delim)
             ELSE IF c = CH_BSLASH
             THEN LET p1 == IF CAt(s, p + 1) = NUL
                               \/ (q = 0 /\ match_delim(s, p + 1, delim))
                            THEN p ELSE p + 1
                  IN  ScanWord(s, p1 + 1, q, FALSE, delim)
             ELSE ScanWord(s, p + 1, q, q = 0 /\ isspace(c), delim)

\* the second pass copying the quote bytes instead of dropping them
RECURSIVE Unquote_keeps_quotes(_, _, _, _)
Unquote_keeps_quotes(arg, u, q, w) ==
    IF CAt(arg, u) = NUL THEN [w |-> w, q |-> q]
    ELSE LET c == CAt(arg, u)
         IN  IF c = CH_SQUOTE \/ c = CH_DQUOTE
             THEN Unquote_keeps_quotes(arg, u + 1,
                                       IF q = 0 THEN c ELSE IF c = q THEN 0 ELSE q,
                                       Append(w, c))
             ELSE IF c = CH_BSLASH
             THEN LET u1 == IF CAt(arg, u + 1) = NUL THEN u ELSE u + 1
                  IN  Unquote_keeps_quotes(arg, u1 + 1, q, Append(w, CAt(arg, u1)))
             ELSE Unquote_keeps_quotes(arg, u + 1, q, Append(w, c))

\* "Now remove quotes and backslashes": [w, q]
RECURSIVE Unquote(_, _, _, _)
Unquote(arg, u, q, w) ==
    IF CAt(arg, u) = NUL THEN [w |-> w, q |-> q]
    ELSE LET c == CAt(arg, u)
         IN  IF c = CH_SQUOTE \/ c = CH_DQUOTE
             THEN Unquote(arg, u + 1, IF q = 0 THEN c ELSE IF c = q THEN 0 ELSE q, w)
             ELSE IF c = CH_BSLASH
             THEN LET u1 == IF CAt(arg, u + 1) = NUL THEN u ELSE u + 1
                  IN  Unquote(arg, u1 + 1, q, Append(w, CAt(arg, u1)))
             ELSE Unquote(arg, u + 1, q, Append(w, c))

\* the while (*p) loop: [argv, p]
RECURSIVE ParseArgs(_, _, _, _, _, _)
ParseArgs(s, p0, escape, q, argv, delim) ==
    IF CAt(s, p0) = NUL THEN [argv |-> argv, p |-> p0]
    ELSE LET From(p) ==
             IF CAt(s, p) = NUL THEN [argv |-> argv, p |-> p]
             ELSE IF ~escape /\ CAt(s, p) = CH_BSLASH
             THEN ParseArgs(s, IF CAt(s, p + 1) # NUL THEN p + 2 ELSE p + 1,
                            TRUE, q, argv, delim)
             ELSE IF match_delim(s, p, delim) THEN [argv |-> argv, p |-> p]
             ELSE LET Rest(e, a) ==
                          ParseArgs(s, e, FALSE, a.q, Append(argv, a.w), delim)
                      Word(e) == Rest(e, Unquote(SubSeq(s, p, e - 1), 1, 0, <<>>))
                      End(w) == Word(IF w.last THEN w.p - 1 ELSE w.p)
                  IN  End(ScanWord(s, p, q, FALSE, delim))
         IN  From(IF escape THEN p0 ELSE SkipSpaces(s, p0))

\* [argc, argv, next]; next is 0 when it is not set
ccli_line_parse_multi(s, delim) ==
    LET Parsed(r) ==
            [argc |-> Len(r.argv), argv |-> r.argv,
             next |-> IF match_delim(s, r.p, delim)
                      THEN SkipSpaces(s, r.p + Len(delim)) ELSE 0]
    IN  Parsed(ParseArgs(s, 1, FALSE, 0, <<>>, delim))

line_parse(s) == ccli_line_parse_multi(s, NIL)

---------------------------------------------------------------------------
(* history.c: the history ring.  ccli.history is the allocated array (slot *)
(* idx is history[idx + 1]); ccli.ub records an access outside it.         *)

\* C's idx % history_max, which keeps the sign of idx
history_idx(c, idx) ==
    IF idx >= 0 THEN idx % c.history_max ELSE 0 - ((0 - idx) % c.history_max)

\* ccli->history[idx]; wild is what a read outside the array yields
HistRead(c, idx, wild) ==
    IF idx >= 0 /\ idx < Len(c.history) THEN c.history[idx + 1] ELSE wild

\* free(ccli->history[idx]); ccli->history[idx] = str
HistWrite(c, idx, str) ==
    IF idx >= 0 /\ idx < Len(c.history)
    THEN [c EXCEPT !.history[idx + 1] = str]
    ELSE [c EXCEPT !.ub = TRUE]

history_add(c, str) ==
    LET g == IF c.history_size < c.history_max
             THEN [c EXCEPT !.history = Append(c.history, NIL)]
             ELSE c
        w == HistWrite(g, history_idx(g, g.history_size), str)
    IN  [w EXCEPT !.history_size = c.history_size + 1,
                  !.current_line = c.history_size + 1]

\* str is strdup(ccli->line->line)
save_current(c, str, current) ==
    IF current >= c.history_size
    THEN [c EXCEPT !.temp_line = str]
    ELSE HistWrite(c, history_idx(c, current), str)

\* [c, l, ret]
history_up(c, l, cnt, wild) ==
    LET current == c.current_line
        c1 == IF current > cnt THEN current - cnt ELSE 0
        c2 == IF c.history_size > c.history_max
                 /\ c1 <= c.history_size - c.history_max
              THEN (c.history_size - c.history_max) + 1
              ELSE c1
        m == [c EXCEPT !.current_line = c2]
        Show(sv, h) ==
            [c |-> IF h = NIL THEN [sv EXCEPT !.ub = TRUE] ELSE sv,
             l |-> IF h = NIL THEN l ELSE line_replace(l, h),
             ret |-> 0]
        Saved(sv) == Show(sv, HistRead(sv, history_idx(sv, c2), wild))
    IN  IF current = c2 THEN [c |-> m, l |-> l, ret |-> 1]
        ELSE Saved(save_current(m, CStr(l), current))

\* restore_current() that shows the saved line and keeps it
restore_current_keeps(c, l) ==
    IF c.temp_line # NIL
    THEN [c |-> c, l |-> line_replace(l, c.temp_line)]
    ELSE [c |-> c, l |-> l]

\* [c, l]
restore_current(c, l) ==
    IF c.temp_line # NIL
    THEN [c |-> [c EXCEPT !.temp_line = NIL], l |-> line_replace(l, c.temp_line)]
    ELSE [c |-> c, l |-> l]

\* [c, l, ret]
history_down(c, l, cnt, wild) ==
    LET current == c.current_line
        c1 == IF current + cnt > c.history_size
              THEN c.history_size ELSE current + cnt
        m == [c EXCEPT !.current_line = c1]
        Show(sv, h) ==
            [c |-> IF h = NIL THEN [sv EXCEPT !.ub = TRUE] ELSE sv,
             l |-> IF h = NIL THEN l ELSE line_replace(l, h),
             ret |-> 0]
        Saved(sv) == Show(sv, HistRead(sv, history_idx(sv, c1), wild))
        Restored(r) == [c |-> r.c, l |-> r.l, ret |-> 1]
    IN  IF c1 = c.history_size
        THEN Restored(restore_current(m, l))
        ELSE Saved(HistWrite(m, history_idx(m, current), CStr(l)))

ccli_history(c, past, wild) ==
    IF past > c.history_size \/ past > c.history_max THEN NIL
    ELSE HistRead(c, (c.history_size - past) % c.history_max, wild)

---------------------------------------------------------------------------
(* commands.c and ccli.c: callbacks, the command registry, dispatch.       *)
(* A callback is named by a string; NULLCB is the NULL function pointer.   *)
(* ccli.commands holds the nr_commands records of the registry.            *)

NULLCB == "NULL"
NULLPTR == 0

\* "exit", the command ccli_alloc() registers
EXIT_STR == <<101, 120, 105, 116>>

\* exec_exit() returning 0, as a callback that lets the loop go on
exec_exit_returns_zero(c, command, l, data, argc, argv) == 0

exec_exit(c, command, l, data, argc, argv) == 1

unknown_default(c, command, l, data, argc, argv) == 0

enter_default(c, command, l, data, argc, argv) == 0

\* interrupt_default() returning 0, as a hook that lets the loop go on
interrupt_default_returns_zero(c, l, pos, data) == 0

interrupt_default(c, l, pos, data) == 1

\* callbacks of the application: one that lets the loop go on, one that ends it
UserCallbacks == {"cb_stay", "cb_quit"}

\* the value a callback of the application returns
UserCall(cb) == IF cb = "cb_quit" THEN 1 ELSE 0

\* one invocation of a callback, as the callback sees it
CallRec(cb, command, l, data, argc, argv) ==
    [callback |-> cb, command |-> command, line |-> l, pos |-> 0, data |-> data,
     argc |-> argc, argv |-> argv]

\* commands.c: command tables.  A node is [name, command, subcommands]: name
\* is NIL for a root without a name, command is NULLCB for a node without a
\* callback, subcommands is the array up to its NULL terminator

\* "Unknown option: " and "usage: "
UNKNOWN_OPTION ==
    <<85, 110, 107, 110, 111, 119, 110, 32, 111, 112, 116, 105, 111, 110, 58, 32>>
USAGE == <<117, 115, 97, 103, 101, 58, 32>>
CH_BAR == 124

\* [command, level]: argv[1] of the code is argv[2] here
RECURSIVE find_table_command(_, _, _, _)
find_table_command(command, argc, argv, level) ==
    LET hits == {i \in 1 .. Len(command.subcommands) :
                    command.subcommands[i].name = argv[2]}
        Descend(i) == find_table_command(command.subcommands[i], argc - 1,
                                         Tail(argv), level + 1)
    IN  IF argc > 1 /\ hits # {}
        THEN Descend(CHOOSE i \in hits : \A j \in hits : i <= j)
        ELSE [command |-> command, level |-> level]

\* [out, ret]: out has one string per ccli_printf()
usage_command(command, argc, argv, level) ==
    [out |-> (IF argc > level + 1
              THEN <<UNKNOWN_OPTION \o argv[level + 2] \o <<CH_NL>>>>
              ELSE <<>>)
             \o <<USAGE>>
             \o [i \in 1 .. level + 1 |-> argv[i] \o <<CH_SPACE>>]
             \o [i \in 1 .. Len(command.subcommands) |->
                    (IF i > 1 THEN <<CH_BAR>> ELSE <<>>)
                    \o command.subcommands[i].name]
             \o <<<<CH_NL>>>>,
     ret |-> 0]

\* command_table_callback() that hands the node's callback the whole argv
command_table_callback_no_offset(c, cmd, l, data, argc, argv) ==
    LET Found(f) ==
            IF f.command.command = NULLCB
            THEN [ret |-> usage_command(f.command, argc, argv, f.level).ret,
                  out |-> usage_command(f.command, argc, argv, f.level).out,
                  calls |-> <<>>]
            ELSE [ret |-> UserCall(f.command.command),
                  out |-> <<>>,
                  calls |-> <<CallRec(f.command.command, cmd, l,
                                      c.command_table_data, argc, argv)>>]
    IN  Found(find_table_command(data, argc, argv, 0))

\* [ret, out, calls]: calls has the invocation of the node's callback
command_table_callback(c, cmd, l, data, argc, argv) ==
    LET Found(f) ==
            IF f.command.command = NULLCB
            THEN [ret |-> usage_command(f.command, argc, argv, f.level).ret,
                  out |-> usage_command(f.command, argc, argv, f.level).out,
                  calls |-> <<>>]
            ELSE [ret |-> UserCall(f.command.command),
                  out |-> <<>>,
                  calls |-> <<CallRec(f.command.command, cmd, l,
                                      c.command_table_data, argc - f.level,
                                      SubSeq(argv, f.level + 1, Len(argv)))>>]
    IN  Found(find_table_command(data, argc, argv, 0))

\* the value a command, enter or unknown callback returns
Call(cb, c, command, l, data, argc, argv) ==
    CASE cb = "exec_exit" -> exec_exit(c, command, l, data, argc, argv)
      [] cb = "unknown_default" -> unknown_default(c, command, l, data, argc, argv)
      [] cb = "enter_default" -> enter_default(c, command, l, data, argc, argv)
      [] cb = "command_table_callback" ->
             command_table_callback(c, command, l, data, argc, argv).ret
      [] OTHER -> UserCall(cb)

\* interrupt callbacks of the application
UserInterrupts == {"int_stay", "int_quit"}

CallInterrupt(cb, c, l, pos, data) ==
    CASE cb = "interrupt_default" -> interrupt_default(c, l, pos, data)
      [] cb = "int_quit" -> 1
      [] OTHER -> 0

\* "Command not found: ", "Exiting\n" and "^C\n"
COMMAND_NOT_FOUND ==
    <<67, 111, 109, 109, 97, 110, 100, 32, 110, 111, 116, 32, 102, 111, 117,
      110, 100, 58, 32>>
EXITING == <<69, 120, 105, 116, 105, 110, 103, 10>>
INTR_ECHO == <<94, 67, 10>>

\* what the callback of the invocation rec writes, one string per
\* echo_str(), echo() or ccli_printf()
CallEcho(rec) ==
    CASE rec.callback = "unknown_default" ->
             <<COMMAND_NOT_FOUND, rec.argv[1], <<10>>>>
      [] rec.callback = "exec_exit" -> <<EXITING>>
      [] rec.callback = "interrupt_default" -> <<INTR_ECHO>>
      [] rec.callback = "command_table_callback" ->
             command_table_callback([command_table_data |-> NULLPTR],
                                    rec.command, rec.line, rec.data, rec.argc,
                                    rec.argv).out
      [] OTHER -> <<>>

\* what the callbacks of the invocations called write, in order
RECURSIVE Echoed(_)
Echoed(called) ==
    IF called = <<>> THEN <<>>
    ELSE CallEcho(Head(called)) \o Echoed(Tail(called))

nr_commands(c) == Len(c.commands)

\* the index of the record found (1-based), 0 for NULL
find_command(c, cmd) ==
    LET hits == {i \in 1 .. nr_commands(c) : c.commands[i].cmd = cmd}
    IN  IF hits = {} THEN 0 ELSE CHOOSE i \in hits : \A j \in hits : i <= j

\* ccli_unregister_command() without the memmove(): the last record goes
unregister_drops_last(c, command_name) ==
    IF command_name = NIL \/ find_command(c, command_name) = 0
    THEN [c |-> c, ret |-> -1]
    ELSE [c |-> [c EXCEPT !.commands = SubSeq(c.commands, 1, nr_commands(c) - 1)],
          ret |-> 0]

\* [c, ret]
ccli_unregister_command(c, command_name) ==
    IF command_name = NIL THEN [c |-> c, ret |-> -1]
    ELSE LET i == find_command(c, command_name)
         IN  IF i = 0 THEN [c |-> c, ret |-> -1]
             ELSE [c |-> [c EXCEPT !.commands =
                              [k \in 1 .. nr_commands(c) - 1 |->
                                  IF k < i THEN c.commands[k] ELSE c.commands[k + 1]]],
                   ret |-> 0]

\* ccli_register_command() without the lookup of an existing record
register_always_appends(c, command_name, callback, data) ==
    IF command_name = NIL \/ callback = NULLCB THEN [c |-> c, ret |-> -1]
    ELSE [c |-> [c EXCEPT !.commands =
                     Append(c.commands,
                            [cmd |-> command_name, callback |-> callback,
                             completion |-> NULLCB, data |-> data])],
          ret |-> 0]

\* [c, ret]
ccli_register_command(c, command_name, callback, data) ==
    IF command_name = NIL \/ callback = NULLCB THEN [c |-> c, ret |-> -1]
    ELSE LET i == find_command(c, command_name)
         IN  IF i # 0
             THEN [c |-> [c EXCEPT !.commands[i].callback = callback,
                                   !.commands[i].data = data],
                   ret |-> 0]
             ELSE [c |-> [c EXCEPT !.commands =
                              Append(c.commands,
                                     [cmd |-> command_name, callback |-> callback,
                                      completion |-> NULLCB, data |-> data])],
                   ret |-> 0]

\* [c, ret]
ccli_register_default(c, callback, data) ==
    IF callback = NULLCB THEN [c |-> c, ret |-> -1]
    ELSE [c |-> [c EXCEPT !.enter = [callback |-> callback, data |-> data]],
          ret |-> 0]

\* [c, ret]
ccli_register_unknown(c, callback, data) ==
    IF callback = NULLCB THEN [c |-> c, ret |-> -1]
    ELSE [c |-> [c EXCEPT !.unknown = [callback |-> callback, data |-> data]],
          ret |-> 0]

\* [c, ret]
ccli_register_interrupt(c, callback, data) ==
    IF callback = NULLCB THEN [c |-> c, ret |-> -1]
    ELSE [c |-> [c EXCEPT !.interrupt = callback, !.interrupt_data = data],
          ret |-> 0]

\* the descriptor ccli_alloc() returns
ccli_alloc ==
    LET z == [commands |-> <<>>,
              unknown |-> [callback |-> NULLCB, data |-> NULLPTR],
              enter |-> [callback |-> NULLCB, data |-> NULLPTR],
              interrupt |-> NULLCB, interrupt_data |-> NULLPTR,
              aliases |-> <<>>,
              default_completion |-> NULLCB,
              command_table |-> NIL, command_table_data |-> NULLPTR,
              history |-> <<>>, history_size |-> 0,
              history_max |-> DEFAULT_HISTORY_MAX,
              current_line |-> 0, temp_line |-> NIL, ub |-> FALSE]
        r == ccli_register_command(z, EXIT_STR, "exec_exit", NULLPTR).c
    IN  [r EXCEPT !.unknown.callback = "unknown_default",
                  !.enter.callback = "enter_default",
                  !.interrupt = "interrupt_default"]

\* -1 when a node has neither a callback nor a subcommand
RECURSIVE test_commands(_)
test_commands(table) ==
    IF table.command = NULLCB /\ table.subcommands = <<>> THEN 0 - 1
    ELSE IF \E i \in 1 .. Len(table.subcommands) :
               test_commands(table.subcommands[i]) # 0
    THEN 0 - 1
    ELSE 0

\* ccli_register_command() for the subcommands from the i-th on
RECURSIVE register_subcommands(_, _, _)
register_subcommands(c, table, i) ==
    IF i > Len(table.subcommands) THEN c
    ELSE register_subcommands(
             ccli_register_command(c, table.subcommands[i].name,
                                   "command_table_callback",
                                   table.subcommands[i]).c,
             table, i + 1)

\* [c, ret]; the arrays of the tables here have their NULL terminators, so
\* test_for_crash() reports no crash
ccli_register_command_table(c, table, data) ==
    IF test_commands(table) # 0 THEN [c |-> c, ret |-> 0 - 1]
    ELSE LET set == [c EXCEPT !.command_table = table,
                              !.command_table_data = data]
             top == IF table.name # NIL /\ table.command # NULLCB
                    THEN ccli_register_command(set, table.name,
                                               "command_table_callback", table).c
                    ELSE set
         IN  [c |-> register_subcommands(top, table, 1), ret |-> 0]

\* alias.c: the alias list, ccli.aliases holds the nr_aliases records
\* [alias, command, exec]

\* the index of the alias found (1-based), 0 for NULL
find_alias(c, alias) ==
    LET hits == {i \in 1 .. Len(c.aliases) : c.aliases[i].alias = alias}
    IN  IF hits = {} THEN 0 ELSE CHOOSE i \in hits : \A j \in hits : i <= j

\* [c, ret]
remove_alias(c, alias_name) ==
    IF alias_name = NIL THEN [c |-> c, ret |-> -1]
    ELSE LET Drop(i) ==
                 IF i = 0 THEN [c |-> c, ret |-> -1]
                 ELSE [c |-> [c EXCEPT !.aliases =
                                  [k \in 1 .. Len(c.aliases) - 1 |->
                                      IF k < i THEN c.aliases[k]
                                      ELSE c.aliases[k + 1]]],
                       ret |-> 0]
         IN  Drop(find_alias(c, alias_name))

\* [c, ret]; command is NIL for NULL
ccli_register_alias(c, alias_name, command) ==
    IF alias_name = NIL THEN [c |-> c, ret |-> -1]
    ELSE IF command = NIL \/ Len(command) = 0 THEN remove_alias(c, alias_name)
    ELSE LET Put(i) ==
                 IF i # 0
                 THEN [c |-> [c EXCEPT !.aliases[i].command = command], ret |-> 0]
                 ELSE [c |-> [c EXCEPT !.aliases =
                                  Append(c.aliases,
                                         [alias |-> alias_name, command |-> command,
                                          exec |-> FALSE])],
                       ret |-> 0]
         IN  Put(find_alias(c, alias_name))

\* do_alias(): "name=command" registers the alias, a bare name only prints
do_alias(c, word) ==
    LET eqs == {i \in 1 .. Len(word) : word[i] = 61}
        Set(e) == ccli_register_alias(c, SubSeq(word, 1, e - 1),
                                      SubSeq(word, e + 1, Len(word))).c
    IN  IF eqs = {} THEN c ELSE Set(CHOOSE e \in eqs : \A j \in eqs : e <= j)

do_unalias(c, word) ==
    IF find_alias(c, word) = 0 THEN c ELSE ccli_register_alias(c, word, NIL).c

\* the instance after exec_alias() and after exec_unalias(); both return 0
RECURSIVE exec_alias(_, _, _, _)
exec_alias(c, argc, argv, i) ==
    IF i > argc THEN c ELSE exec_alias(do_alias(c, argv[i]), argc, argv, i + 1)

RECURSIVE exec_unalias(_, _, _, _)
exec_unalias(c, argc, argv, i) ==
    IF i > argc THEN c ELSE exec_unalias(do_unalias(c, argv[i]), argc, argv, i + 1)

\* the instance after the callback cb ran; the callbacks of the application
\* leave it as it is
CallEffect(cb, c, argc, argv) ==
    CASE cb = "exec_alias" -> exec_alias(c, argc, argv, 2)
      [] cb = "exec_unalias" -> exec_unalias(c, argc, argv, 2)
      [] OTHER -> c

\* execute() adding the line to the history whatever hist says
execute_always_records(c, l, hist) ==
    LET a == line_parse(l)
        i == IF a.argc > 0 THEN find_command(c, a.argv[1]) ELSE 0
        cb == IF i # 0 THEN c.commands[i].callback ELSE c.unknown.callback
        command == IF i # 0 THEN c.commands[i].cmd ELSE a.argv[1]
        data == IF i # 0 THEN c.commands[i].data ELSE c.unknown.data
    IN  IF a.argc = 0
        THEN [c |-> c,
              ret |-> Call(c.enter.callback, c, <<>>, l, c.enter.data, 0, <<>>),
              calls |-> <<CallRec(c.enter.callback, <<>>, l, c.enter.data, 0, <<>>)>>]
        ELSE [c |-> history_add(c, l),
              ret |-> Call(cb, c, command, l, data, a.argc, a.argv),
              calls |-> <<CallRec(cb, command, l, data, a.argc, a.argv)>>]

\* execute(): [c, ret, calls]; calls lists the callbacks invoked
execute(c, l, hist) ==
    LET Invoke(cb, command, data, a) ==
            [c |-> IF hist THEN history_add(CallEffect(cb, c, a.argc, a.argv), l)
                   ELSE CallEffect(cb, c, a.argc, a.argv),
             ret |-> Call(cb, c, command, l, data, a.argc, a.argv),
             calls |-> <<CallRec(cb, command, l, data, a.argc, a.argv)>>
                       \o IF cb = "command_table_callback"
                          THEN command_table_callback(c, command, l, data,
                                                      a.argc, a.argv).calls
                          ELSE <<>>]
        Dispatch(i, a) ==
            IF i # 0
            THEN Invoke(c.commands[i].callback, c.commands[i].cmd,
                        c.commands[i].data, a)
            ELSE Invoke(c.unknown.callback, a.argv[1], c.unknown.data, a)
        Run(a) ==
            IF a.argc = 0
            THEN [c |-> c,
                  ret |-> Call(c.enter.callback, c, <<>>, l, c.enter.data, 0, <<>>),
                  calls |-> <<CallRec(c.enter.callback, <<>>, l, c.enter.data, 0,
                                      <<>>)>>]
            ELSE Dispatch(find_command(c, a.argv[1]), a)
    IN  Run(line_parse(l))

\* "Error parsing command\n"
ERROR_PARSING ==
    <<69, 114, 114, 111, 114, 32, 112, 97, 114, 115, 105, 110, 103, 32,
      99, 111, 109, 109, 97, 110, 100, 10>>

\* execute() that passes the failure of line_parse() on to its caller
execute_parse_passes_failure(c, l, hist, mem) ==
    IF ~mem /\ line_parse(l).argc > 0
    THEN [c |-> c, ret |-> 0 - 1, calls |-> <<>>, out |-> <<ERROR_PARSING>>]
    ELSE [c |-> execute(c, l, hist).c, ret |-> execute(c, l, hist).ret,
          calls |-> execute(c, l, hist).calls, out |-> <<>>]

\* execute() with the allocations of line_parse() succeeding (mem) or not:
\* malloc() and realloc() are called for the first word, so a line without
\* words is parsed whatever they do. [c, ret, calls, out]
execute_parse(c, l, hist, mem) ==
    IF ~mem /\ line_parse(l).argc > 0
    THEN [c |-> c, ret |-> 0, calls |-> <<>>, out |-> <<ERROR_PARSING>>]
    ELSE [c |-> execute(c, l, hist).c, ret |-> execute(c, l, hist).ret,
          calls |-> execute(c, l, hist).calls, out |-> <<>>]

\* ccli_execute(): line_init_str() copies line_str into a buffer of whole
\* chunks, execute() reads it back as a string
line_init_str(str, chunk) ==
    LET size == ((Len(str) + chunk) \div chunk) * chunk
    IN  [buf |-> [i \in 0 .. size - 1 |-> IF i < Len(str) THEN str[i + 1] ELSE NUL],
         size |-> size, len |-> Len(str), pos |-> Len(str), start |-> 0, ub |-> FALSE]

ccli_execute(c, line_str, hist, chunk) ==
    execute(c, CStr(line_init_str(line_str, chunk)), hist)

---------------------------------------------------------------------------
(* alias.c: execute_alias().  The step of execute() that looks a first     *)
(* word up among the aliases is not in the sources at hand; dispatch()     *)
(* states it as the dispatch rules of the specification do.                *)

\* the line execute_alias() builds: the command, then a space and argv[i] for
\* every argument after the first
RECURSIVE new_line(_, _, _)
new_line(command, argv, i) ==
    IF i > Len(argv) THEN command
    ELSE new_line(command \o <<CH_SPACE>> \o argv[i], argv, i + 1)

\* 'alias->exec = false' after execute(): alias still points at the i-th
\* record of the array as it was before.  remove_alias() moves the records
\* after the one it removes down, so the record there may be another one,
\* or the cleared one past the end; registering a new alias calls realloc(),
\* after which alias may point into freed memory
alias_exec_false(before, after, i) ==
    IF \E k \in 1 .. Len(after.aliases) :
          \A j \in 1 .. Len(before.aliases) :
              after.aliases[k].alias # before.aliases[j].alias
    THEN [after EXCEPT !.ub = TRUE]
    ELSE IF i <= Len(after.aliases) THEN [after EXCEPT !.aliases[i].exec = FALSE]
    ELSE after

RECURSIVE dispatch(_, _, _)
RECURSIVE execute_alias(_, _, _, _, _)

\* execute_alias() handing the line it was given, not the line it built, on
execute_alias_same_line(c, i, l, argc, argv) ==
    IF c.aliases[i].exec
    THEN [c |-> c,
          ret |-> Call(c.unknown.callback, c, argv[1], l, c.unknown.data, argc, argv),
          calls |-> <<CallRec(c.unknown.callback, argv[1], l, c.unknown.data, argc,
                              argv)>>]
    ELSE LET Back(r) == [c |-> [r.c EXCEPT !.aliases[i].exec = FALSE],
                         ret |-> r.ret, calls |-> r.calls]
         IN  Back(dispatch([c EXCEPT !.aliases[i].exec = TRUE], l, FALSE))

\* execute_alias() with the test of alias->exec inverted
execute_alias_inverted(c, i, l, argc, argv) ==
    IF ~c.aliases[i].exec
    THEN [c |-> c,
          ret |-> Call(c.unknown.callback, c, argv[1], l, c.unknown.data, argc, argv),
          calls |-> <<CallRec(c.unknown.callback, argv[1], l, c.unknown.data, argc,
                              argv)>>]
    ELSE LET Back(r) == [c |-> [r.c EXCEPT !.aliases[i].exec = FALSE],
                         ret |-> r.ret, calls |-> r.calls]
         IN  Back(dispatch([c EXCEPT !.aliases[i].exec = TRUE],
                           new_line(c.aliases[i].command, argv, 2), FALSE))

\* execute_alias() letting the inner execute() record the line it built
execute_alias_records(c, i, l, argc, argv) ==
    IF c.aliases[i].exec
    THEN [c |-> c,
          ret |-> Call(c.unknown.callback, c, argv[1], l, c.unknown.data, argc, argv),
          calls |-> <<CallRec(c.unknown.callback, argv[1], l, c.unknown.data, argc,
                              argv)>>]
    ELSE LET Back(r) == [c |-> [r.c EXCEPT !.aliases[i].exec = FALSE],
                         ret |-> r.ret, calls |-> r.calls]
         IN  Back(dispatch([c EXCEPT !.aliases[i].exec = TRUE],
                           new_line(c.aliases[i].command, argv, 2), TRUE))

\* execute_alias(ccli, &ccli->aliases[i], line, argc, argv): [c, ret, calls]
execute_alias(c, i, l, argc, argv) ==
    IF c.aliases[i].exec
    THEN [c |-> c,
          ret |-> Call(c.unknown.callback, c, argv[1], l, c.unknown.data, argc, argv),
          calls |-> <<CallRec(c.unknown.callback, argv[1], l, c.unknown.data, argc,
                              argv)>>]
    ELSE LET Back(r) == [c |-> alias_exec_false(c, r.c, i),
                         ret |-> r.ret, calls |-> r.calls]
         IN  Back(dispatch([c EXCEPT !.aliases[i].exec = TRUE],
                           new_line(c.aliases[i].command, argv, 2), FALSE))

\* execute() with its alias step: a first word that names an alias which is
\* not being executed is expanded by execute_alias() and the line as given is
\* added to the history; every other line goes to the registry
dispatch(c, l, hist) ==
    LET Expanded(r) == [c |-> IF hist THEN history_add(r.c, l) ELSE r.c,
                        ret |-> r.ret, calls |-> r.calls]
        Step(a, i) ==
            IF i # 0 /\ ~c.aliases[i].exec
            THEN Expanded(execute_alias(c, i, l, a.argc, a.argv))
            ELSE execute(c, l, hist)
        Parsed(a) == Step(a, IF a.argc > 0 THEN find_alias(c, a.argv[1]) ELSE 0)
    IN  Parsed(line_parse(l))

---------------------------------------------------------------------------
(* complete.c: do_completion(), what ccli_loop() does with a Tab.  A       *)
(* candidate list is a sequence of strings.  A completion callback is      *)
(* named by a string; CallCompletion gives what it returns, what it adds   *)
(* to the list and the byte it leaves in match[mlen].                      *)

CCLI_NOSPACE == 1
CH_SLASH == 47

AB == <<CH_a, CH_b>>
AA == <<CH_a, CH_a>>

\* completion callbacks of the application
UserCompletions == {"comp_one", "comp_two", "comp_slash", "comp_nospace", "comp_fail"}

\* [cnt, list, term]
CallCompletion(cb) ==
    CASE cb = "comp_one" -> [cnt |-> 1, list |-> <<AB>>, term |-> NUL]
      [] cb = "comp_two" -> [cnt |-> 3, list |-> <<AB, AA, AB>>, term |-> NUL]
      [] cb = "comp_slash" -> [cnt |-> 1, list |-> <<AB>>, term |-> CH_SLASH]
      [] cb = "comp_nospace" -> [cnt |-> 1, list |-> <<AB>>, term |-> CCLI_NOSPACE]
      [] cb = "comp_fail" -> [cnt |-> 0 - 1, list |-> <<>>, term |-> NUL]
      [] OTHER -> [cnt |-> 0, list |-> <<>>, term |-> NUL]

\* [c, ret]
ccli_register_completion(c, command_name, completion) ==
    IF command_name = NIL \/ completion = NULLCB THEN [c |-> c, ret |-> -1]
    ELSE LET Set(i) ==
                 IF i = 0 THEN [c |-> c, ret |-> -1]
                 ELSE [c |-> [c EXCEPT !.commands[i].completion = completion],
                       ret |-> 0]
         IN  Set(find_command(c, command_name))

ccli_register_default_completion(c, completion, data) ==
    [c |-> [c EXCEPT !.default_completion = completion], ret |-> 0]

\* strcmp(a, b) < 0
do_strcmp(a, b) ==
    \E i \in 1 .. Len(b) :
        /\ \A j \in 1 .. i - 1 : j <= Len(a) /\ a[j] = b[j]
        /\ (i > Len(a) \/ a[i] < b[i])

\* the list sorted with its repeated words dropped
RECURSIVE sort_unique(_)
sort_unique(words) ==
    IF words = {} THEN <<>>
    ELSE LET Rest(w) == <<w>> \o sort_unique(words \ {w})
         IN  Rest(CHOOSE w \in words : \A v \in words : v = w \/ do_strcmp(w, v))

RECURSIVE match_chars(_, _, _)
match_chars(a, b, i) ==
    IF i < Len(a) /\ i < Len(b) /\ a[i + 1] = b[i + 1] THEN match_chars(a, b, i + 1)
    ELSE i

\* find_matches() counting every word of the list as a match
find_matches_counts_all(match, mlen, list) ==
    [matched |-> Len(list), last |-> Len(list), max |-> 0 - 1]

\* [matched, last, max]; last is an index of list (0 when nothing matches)
find_matches(match, mlen, list) ==
    LET hits == {i \in 1 .. Len(list) :
                    mlen = 0 \/ (Len(list[i]) >= mlen /\ SubSeq(list[i], 1, mlen) = match)}
        Found(m) ==
            [matched |-> Cardinality(hits),
             last |-> CHOOSE i \in hits : \A j \in hits : j <= i,
             max |-> IF Cardinality(hits) < 2 THEN 0 - 1
                     ELSE CHOOSE x \in 0 .. Len(list[m]) :
                            /\ \E i \in hits \ {m} : match_chars(list[m], list[i], 0) = x
                            /\ \A i \in hits \ {m} : match_chars(list[m], list[i], 0) >= x]
    IN  IF hits = {} THEN [matched |-> 0, last |-> 0, max |-> 0 - 1]
        ELSE Found(CHOOSE i \in hits : \A j \in hits : i <= j)

\* line_insert() of word[from + 1 .. from + len], one byte after the other
RECURSIVE insert_word(_, _, _, _, _)
insert_word(l, word, from, len, env) ==
    IF len <= 0 THEN l
    ELSE insert_word(line_insert(l, word[from + 1], env.chunk, env.room, env.junk,
                                 env.oob).l,
                     word, from + 1, len - 1, env)

\* line_copy(&copy, line, line->pos) read as a string: strncpy() leaves the
\* copy without a terminator when the bytes copied fill the allocation
line_copy(l, oob) ==
    LET n == Min(l.pos, l.len)
        Str(s) == IF Len(s) = l.size /\ oob # NUL THEN Append(s, oob) ELSE s
    IN  [line |-> Str(CStr([l EXCEPT !.buf = [i \in 0 .. l.size - 1 |->
                                                 IF i < n THEN l.buf[i] ELSE NUL]])),
         pos |-> n,
         before |-> IF n > 0 THEN l.buf[n - 1] ELSE NUL]

\* print_completion(): the candidates that start with match, in list order
print_completion(match, mlen, list) ==
    SelectSeq(list, LAMBDA w : Len(w) >= mlen /\ SubSeq(w, 1, mlen) = match)

\* the word of do_completion() without its test of the byte before the cursor
word_to_complete_no_space_test(cp, a) ==
    IF a.argc = 0 THEN [word |-> 0, match |-> <<>>]
    ELSE [word |-> a.argc - 1, match |-> a.argv[a.argc]]

\* the word do_completion() completes in the copy cp parsed as a: the last
\* argument, or a new empty one when the cursor follows white space
word_to_complete(cp, a) ==
    IF a.argc = 0 \/ isspace(cp.before) THEN [word |-> a.argc, match |-> <<>>]
    ELSE [word |-> a.argc - 1, match |-> a.argv[a.argc]]

\* do_completion(ccli, line, tab): [l, calls, out]
do_completion(c, l, tabs, env) ==
    LET None == [cnt |-> 0, list |-> <<>>, term |-> NUL]
        Names == {c.commands[i].cmd : i \in 1 .. Len(c.commands)}
        Done(line1, called, printed) == [l |-> line1, calls |-> called, out |-> printed]
        Finish(match, mlen, delim, list, called) ==
            LET Apply(f) ==
                    Done(IF f.matched = 1
                         THEN LET w == insert_word(l, list[f.last], mlen,
                                                   Len(list[f.last]) - mlen, env)
                              IN  IF delim # CCLI_NOSPACE
                                  THEN line_insert(w, delim, env.chunk, env.room,
                                                   env.junk, env.oob).l
                                  ELSE w
                         ELSE IF f.matched > 1 /\ f.max > mlen
                         THEN insert_word(l, list[f.last], mlen, f.max - mlen, env)
                         ELSE l,
                         called,
                         IF tabs # 0 /\ f.matched > 1
                         THEN <<<<CH_NL>>>> \o print_completion(match, mlen, list)
                         ELSE <<>>)
            IN  Apply(find_matches(match, mlen, list))
        Gather(a, word, match, k) ==
            LET cb == IF k # 0 /\ c.commands[k].completion # NULLCB
                      THEN c.commands[k].completion
                      ELSE IF c.default_completion # NULLCB THEN c.default_completion
                      ELSE NULLCB
                r == IF cb = NULLCB THEN None ELSE CallCompletion(cb)
                called == IF cb = NULLCB THEN <<>>
                          ELSE <<[callback |-> cb, word |-> word, match |-> match]>>
            IN  IF r.cnt < 0 THEN Done(l, called, <<>>)
                ELSE Finish(match, Len(match),
                            IF r.term = NUL THEN CH_SPACE ELSE r.term,
                            sort_unique({r.list[i] : i \in 1 .. r.cnt}
                                        \cup (IF word = 0 THEN Names ELSE {})),
                            called)
        Words(a, w) ==
            Gather(a, w.word, w.match,
                   IF w.word # 0 THEN find_command(c, a.argv[1]) ELSE 0)
        Copied(cp) ==
            LET Parsed(a) == Words(a, word_to_complete(cp, a))
            IN  Parsed(line_parse(cp.line))
    IN  Copied(line_copy(l, env.oob))

---------------------------------------------------------------------------
(* ccli.c: read_char(), the keystroke decoder.  `bytes' is what read() can *)
(* deliver now and eof says that read() returns 0 after it.                *)
(* [status, ch, rest, err]: status "block" when read() has to wait for     *)
(* more input, else "ok" with the value returned, the bytes left unread,   *)
(* and err telling that read() reported the end of the input.              *)

Decoded(ch, bytes, i) ==
    [status |-> "ok", ch |-> ch, rest |-> SubSeq(bytes, i + 1, Len(bytes)),
     err |-> FALSE]

\* switch (num) with the cases of Home and End exchanged
NumKey_exchanged(num) ==
    CASE num = 1 -> CHAR_END
      [] num = 2 -> CHAR_INSERT
      [] num = 3 -> CHAR_DEL
      [] num = 4 -> CHAR_HOME
      [] num = 5 -> CHAR_PAGEUP
      [] OTHER -> CHAR_PAGEDOWN

\* switch (num) after "ESC [ <digit>"
NumKey(num) ==
    CASE num = 1 -> CHAR_HOME
      [] num = 2 -> CHAR_INSERT
      [] num = 3 -> CHAR_DEL
      [] num = 4 -> CHAR_END
      [] num = 5 -> CHAR_PAGEUP
      [] OTHER -> CHAR_PAGEDOWN

RECURSIVE ReadFrom(_, _, _, _, _, _, _, _)
ReadFrom(bytes, i, esc, bracket, num, semi, five, ended) ==
    IF i > Len(bytes)
    THEN IF ended
         THEN [status |-> "ok", ch |-> CHAR_ERROR, rest |-> <<>>, err |-> TRUE]
         ELSE [status |-> "block", ch |-> 0, rest |-> bytes, err |-> FALSE]
    ELSE LET ch == bytes[i]
         IN  CASE ch = 3 -> Decoded(CHAR_INTR, bytes, i)
               [] ch = 18 -> Decoded(CHAR_REVERSE, bytes, i)
               [] ch = 21 -> Decoded(CHAR_DEL_BEGINNING, bytes, i)
               [] ch = 27 -> ReadFrom(bytes, i + 1, TRUE, bracket, num, semi, five, ended)
               [] ch = 127 -> Decoded(IF esc THEN CHAR_DELWORD ELSE CHAR_BACKSPACE,
                                      bytes, i)
               [] OTHER ->
                  IF esc
                  THEN ReadFrom(bytes, i + 1, FALSE, bracket \/ ch = 91, num, semi,
                                five, ended)
                  ELSE IF bracket
                  THEN CASE ch = 65 -> Decoded(CHAR_UP, bytes, i)
                         [] ch = 66 -> Decoded(CHAR_DOWN, bytes, i)
                         [] ch = 67 -> Decoded(CHAR_RIGHT, bytes, i)
                         [] ch = 68 -> Decoded(CHAR_LEFT, bytes, i)
                         [] ch = 72 -> Decoded(CHAR_HOME, bytes, i)
                         [] ch = 70 -> Decoded(CHAR_END, bytes, i)
                         [] ch >= 49 /\ ch <= 54 ->
                            ReadFrom(bytes, i + 1, FALSE, FALSE, ch - 48, semi, five, ended)
                         [] OTHER ->
                            ReadFrom(bytes, i + 1, FALSE, FALSE, num, semi, five, ended)
                  ELSE IF num # 0
                  THEN IF ch = 126 THEN Decoded(NumKey(num), bytes, i)
                       ELSE ReadFrom(bytes, i + 1, FALSE, FALSE, 0,
                                     semi \/ ch = 59, five, ended)
                  ELSE IF semi
                  THEN ReadFrom(bytes, i + 1, FALSE, FALSE, 0, ch # 53,
                                five \/ ch = 53, ended)
                  ELSE IF five /\ ch = 67 THEN Decoded(CHAR_RIGHT_WORD, bytes, i)
                  ELSE IF five /\ ch = 68 THEN Decoded(CHAR_LEFT_WORD, bytes, i)
                  ELSE Decoded(ch, bytes, i)

read_char(bytes, ended) == ReadFrom(bytes, 1, FALSE, FALSE, 0, FALSE, FALSE, ended)

---------------------------------------------------------------------------
(* history.c: history_search(), the reverse search.  It reads keys itself; *)
(* sr holds its local variables between two keys:                          *)
(* [search, last_hist, hist, save_current_line, pos].                      *)
(* env = [chunk, room, junk, oob, wild, schar] is what the build and the   *)
(* allocator decide: BUFSIZ, how far realloc() succeeds, what new memory   *)
(* and out-of-bounds reads hold, and whether char is signed.               *)

\* the value an int has after it is stored in a char
ToChar(v, signed) ==
    LET b == v % 256 IN IF signed /\ b >= 128 THEN b - 256 ELSE b

NoSearch ==
    [search |-> line_init(1), last_hist |-> NIL, hist |-> NIL,
     save_current_line |-> 0, pos |-> 0]

\* history_search() that does not note where the history stood
SearchStart_forgets_current(c, chunk) ==
    [search |-> line_init(chunk), last_hist |-> NIL, hist |-> NIL,
     save_current_line |-> 0, pos |-> c.current_line]

\* history_search() up to its first read_char()
SearchStart(c, chunk) ==
    [search |-> line_init(chunk), last_hist |-> NIL, hist |-> NIL,
     save_current_line |-> c.current_line, pos |-> c.current_line]

\* the for loop at the label search: [i, hist, p]; p is -1 for NULL
RECURSIVE FindHit(_, _, _, _, _, _, _, _)
FindHit(c, needle, last_hist, i, min, hist, p, wild) ==
    IF i < min THEN [i |-> i, hist |-> hist, p |-> p]
    ELSE IF i >= c.history_size
    THEN FindHit(c, needle, last_hist, i - 1, min, hist, p, wild)
    ELSE LET h == HistRead(c, history_idx(c, i), wild)
             q == IF h = NIL THEN -1 ELSE StrStr(h, needle)
         IN  IF q = -1 \/ (last_hist # NIL /\ last_hist = h)
             THEN FindHit(c, needle, last_hist, i - 1, min, h, q, wild)
             ELSE [i |-> i, hist |-> h, p |-> q]

\* from the label search to the end of the switch: [c, l, sr]
DoSearch(c, l, sr, env) ==
    LET min == IF c.history_size > c.history_max
               THEN c.history_size - c.history_max ELSE 0
        Found(f) ==
            IF f.p # -1
            THEN LET sv == IF c.current_line >= c.history_size
                           THEN save_current(c, CStr(l), c.current_line)
                           ELSE c
                 IN  [c |-> [sv EXCEPT !.current_line = f.i],
                      l |-> [line_replace(l, f.hist) EXCEPT
                                !.pos = f.p + sr.search.len],
                      sr |-> [sr EXCEPT !.hist = f.hist, !.pos = f.i]]
            ELSE [c |-> c, l |-> l, sr |-> [sr EXCEPT !.hist = f.hist]]
    IN  Found(FindHit(c, CStr(sr.search), sr.last_hist, sr.pos, min, sr.hist, -1,
                      env.wild))

\* one turn of the for (;;) loop with ch the key read_char() returned:
\* [c, l, sr, out]; out tells that history_search() returned ch
SearchKey(c, l, sr, ch, env) ==
    LET Shown(d) == [c |-> d.c, l |-> d.l, sr |-> d.sr, out |-> FALSE]
        Typed(r) ==
            IF r.ret # 0
            THEN [c |-> c, l |-> l, sr |-> sr, out |-> FALSE]
            ELSE Shown(DoSearch(c, l, [sr EXCEPT !.search = r.l], env))
    IN
    CASE ch = CHAR_INTR ->
           [c |-> [c EXCEPT !.current_line = sr.save_current_line],
            l |-> line_reset(l), sr |-> NoSearch, out |-> TRUE]
      [] (ch >= CHAR_IGNORE_START_H /\ ch <= CHAR_IGNORE_END) \/ ch = CH_NL \/ ch = CH_TAB ->
           [c |-> c, l |-> l, sr |-> NoSearch, out |-> TRUE]
      [] ch = CHAR_BACKSPACE ->
           IF sr.search.len = 0
           THEN [c |-> c, l |-> l, sr |-> sr, out |-> FALSE]
           ELSE Shown(DoSearch(c, l,
                               [sr EXCEPT !.search = line_backspace(sr.search,
                                                                    env.oob)],
                               env))
      [] ch = CHAR_REVERSE ->
           Shown(DoSearch(c, l, [sr EXCEPT !.pos = sr.pos - 1,
                                           !.last_hist = sr.hist], env))
      [] OTHER ->
           Typed(line_insert(sr.search, ToChar(ch, env.schar), env.chunk,
                             env.room, env.junk, env.oob))

---------------------------------------------------------------------------
(* ccli.c: ccli_loop().  One turn of the while loop for the key ch, from   *)
(* the label again on: [c, l, sr, pc, ret, calls, key].  pc is "loop"      *)
(* while the loop goes on reading, "search" when history_search() reads    *)
(* the next key, "done" when the loop has ended.  Tab is not among the     *)
(* keys of this model.                                                     *)

\* the invocation of the interrupt callback: (ccli, line, pos, data)
InterruptRec(c, l, oob) ==
    [callback |-> c.interrupt, command |-> <<>>, line |-> LineStr(l, oob),
     pos |-> l.pos,
     data |-> c.interrupt_data, argc |-> 0, argv |-> <<>>]

Turn(c, l, sr, next, ret, called, key) ==
    [c |-> c, l |-> l, sr |-> sr, pc |-> next, ret |-> ret, calls |-> called,
     key |-> key]

LoopKey(c, l, ch, env) ==
    LET Ran(r) ==
            IF r.ret # 0
            THEN Turn(r.c, l, NoSearch, "done", r.ret, r.calls, "enter")
            ELSE Turn(r.c, line_reset(l), NoSearch, "loop", 0, r.calls, "enter")
        Interrupted(r) ==
            Turn(c, l, NoSearch, IF r # 0 THEN "done" ELSE "loop", r,
                 <<InterruptRec(c, l, env.oob)>>, "interrupt")
        Moved(r, key) == Turn(r.c, r.l, NoSearch, "loop", 0, <<>>, key)
    IN
    CASE ch = CH_NL -> Ran(execute(c, LineStr(l, env.oob), TRUE))
      [] ch = CHAR_INTR ->
           Interrupted(CallInterrupt(c.interrupt, c, LineStr(l, env.oob), l.pos,
                                     c.interrupt_data))
      [] ch = CHAR_REVERSE ->
           Turn(c, l, SearchStart(c, env.chunk), "search", 0, <<>>, "reverse")
      [] ch = CHAR_BACKSPACE ->
           Turn(c, line_backspace(l, env.oob), NoSearch, "loop", 0, <<>>, "backspace")
      [] ch = CHAR_DEL ->
           Turn(c, line_del(l, env.oob), NoSearch, "loop", 0, <<>>, "delete")
      [] ch = CHAR_DELWORD ->
           Turn(c, line_del_word(l, env.oob).l, NoSearch, "loop", 0, <<>>,
                "delete_word")
      [] ch = CHAR_DEL_BEGINNING ->
           Turn(c, line_del_beginning(l, env.oob).l, NoSearch, "loop", 0, <<>>,
                "delete_to_start")
      [] ch = CHAR_UP ->
           Moved(history_up(c, l, 1, env.wild), "up")
      [] ch = CHAR_DOWN ->
           Moved(history_down(c, l, 1, env.wild), "down")
      [] ch = CHAR_LEFT -> Turn(c, line_left(l), NoSearch, "loop", 0, <<>>, "left")
      [] ch = CHAR_RIGHT -> Turn(c, line_right(l), NoSearch, "loop", 0, <<>>, "right")
      [] ch = CHAR_HOME -> Turn(c, line_home(l), NoSearch, "loop", 0, <<>>, "home")
      [] ch = CHAR_END -> Turn(c, line_end(l), NoSearch, "loop", 0, <<>>, "end")
      [] ch = CHAR_PAGEUP ->
           Moved(history_up(c, l, DEFAULT_PAGE_SCROLL, env.wild), "pageup")
      [] ch = CHAR_PAGEDOWN ->
           Moved(history_down(c, l, DEFAULT_PAGE_SCROLL, env.wild), "pagedown")
      [] ch = CHAR_LEFT_WORD ->
           Turn(c, line_left_word(l, env.oob), NoSearch, "loop", 0, <<>>, "left_word")
      [] ch = CHAR_RIGHT_WORD ->
           Turn(c, line_right_word(l, env.oob), NoSearch, "loop", 0, <<>>,
                "right_word")
      [] ch = CHAR_INSERT -> Turn(c, l, NoSearch, "loop", 0, <<>>, "insert_key")
      [] OTHER ->
           IF isprint(ch)
           THEN Turn(c, line_insert(l, ch, env.chunk, env.room, env.junk, env.oob).l,
                     NoSearch, "loop", 0, <<>>, "insert")
           ELSE Turn(c, l, NoSearch, "loop", 0, <<>>, "unknown_char")

\* the turn of the loop that starts with read_char() returning r
LoopRead(c, l, r, env) ==
    LET ch == ToChar(r, env.schar)
    IN  IF ch = CHAR_ERROR
        THEN Turn(c, l, NoSearch, "done", 0, <<>>, "read_error")
        ELSE LoopKey(c, l, ch, env)

\* the key r read inside history_search(), and what the loop does when
\* history_search() returns it
SearchRead(c, l, sr, r, env) ==
    LET ch == ToChar(r, env.schar)
        Back(s) ==
            IF ~s.out THEN Turn(s.c, s.l, s.sr, "search", 0, <<>>, "search_key")
            ELSE IF ch # CHAR_INTR THEN LoopKey(s.c, s.l, ch, env)
            ELSE Turn(s.c, s.l, NoSearch, "loop", 0, <<>>, "search_cancel")
    IN  Back(SearchKey(c, l, sr, r, env))

---------------------------------------------------------------------------
(* SpecLine: the line-buffer operations applied in any order to an         *)
(* initialised buffer.                                                     *)

\* bytes the user types in SpecLine: a word byte and a separator byte
LineBytes == {CH_a, CH_BSLASH}
\* strings handed to line_replace() and ccli_line_inject()
LineStrs == {<<>>, <<CH_a>>, <<CH_BSLASH, CH_a>>, <<CH_a, CH_a, CH_a, CH_a>>}

Junk(n) == [0 .. n - 1 -> WildBytes]
\* realloc() is reached only when inserting n bytes fills the buffer
JunkFor(l, n) == IF l.len + n > l.size THEN Junk(bufsiz) ELSE {Zeros(bufsiz)}
\* what realloc() may grant: nothing, or up to MaxChunks chunks
Rooms == {0, MaxChunks * bufsiz}
RoomsFor(l, n) == IF l.len + n > l.size THEN Rooms ELSE {0}

\* ghost: arg is the argument of the last operation; typed are the printable
\* bytes typed since the line was last empty and plain says that nothing else
\* was typed; entered is [line, typed, plain] at the last Enter; submitted
\* lists the lines added to the history and added says that the last
\* operation added one; before is the history state and
\* prev the registry before the last operation; latest maps a command name
\* to its latest registration; err says that the last read_char() met the end
\* of the input; kept says that no call named the command "exit"; walk.on
\* says that since an Up pressed on the line being composed only Up and Down
\* were pressed, and walk holds that line and the ring as they were then.
Ghost0 ==
    [arg |-> 0, typed |-> <<>>, plain |-> TRUE, err |-> FALSE, kept |-> TRUE,
     entered |-> [line |-> NIL, typed |-> <<>>, plain |-> FALSE],
     submitted |-> <<>>, added |-> FALSE, before |-> 0, prev |-> <<>>,
     latest |-> <<>>, started |-> 0,
     walk |-> [on |-> FALSE, line |-> <<>>, history |-> <<>>]]

\* the state after ccli_alloc() on a build with BUFSIZ b, before any input
Boot(b) ==
    /\ bufsiz = b
    /\ line = line_init(b)
    /\ ccli = ccli_alloc
    /\ srch = NoSearch
    /\ inq = <<>>
    /\ eof = FALSE
    /\ used = [setup |-> 0, keys |-> 0, eofs |-> 0]
    /\ tab = 0
    /\ out = <<>>
    /\ file = <<>>
    /\ op = "init"
    /\ opret = 0
    /\ calls = <<>>

LineInit ==
    /\ Boot(LineBufSiz)
    /\ schar = TRUE
    /\ pc = "loop"
    /\ ghost = Ghost0

\* The model follows a buffer until an operation wrote outside the allocation
\* or left the cursor or the length outside it.
Broken(l) == l.ub \/ l.pos < 0 \/ l.pos > l.size \/ l.len > l.size

LineDo(name, l, r) ==
    /\ ~Broken(line)
    /\ line' = l
    /\ op' = name
    /\ opret' = r
    /\ UNCHANGED <<bufsiz, schar, file, tab, out, ccli, pc, srch, inq, eof, used, calls, ghost>>

LInsert ==
    \E ch \in LineBytes, room \in RoomsFor(line, 1), junk \in JunkFor(line, 1),
       oob \in WildBytes :
        LET r == line_insert(line, ch, bufsiz, room, junk, oob)
        IN  LineDo("insert", r.l, r.ret)

LNewline ==
    \E oob \in WildBytes :
        LET r == line_insert(line, CHAR_NEWLINE, bufsiz, 0, Zeros(bufsiz), oob)
        IN  LineDo("newline", r.l, r.ret)

LLeft == LineDo("left", line_left(line), 0)
LRight == LineDo("right", line_right(line), 0)
LHome == LineDo("home", line_home(line), 0)
LEnd == LineDo("end", line_end(line), 0)
LLeftWord == \E oob \in WildBytes : LineDo("left_word", line_left_word(line, oob), 0)
LRightWord == \E oob \in WildBytes : LineDo("right_word", line_right_word(line, oob), 0)
LBackspace == \E oob \in WildBytes : LineDo("backspace", line_backspace(line, oob), 0)
LDelete == \E oob \in WildBytes : LineDo("delete", line_del(line, oob), 0)

LDelWord ==
    \E oob \in WildBytes :
        LET r == line_del_word(line, oob) IN LineDo("delete_word", r.l, r.ret)

LDelBeginning ==
    \E oob \in WildBytes :
        LET r == line_del_beginning(line, oob) IN LineDo("delete_to_start", r.l, r.ret)

LReplace == \E s \in LineStrs : LineDo("replace", line_replace(line, s), 0)

LInject ==
    \E s \in LineStrs, pos \in -1 .. 1, oob \in WildBytes :
      \E room \in RoomsFor(line, Len(s)), junk \in JunkFor(line, Len(s)) :
        LET r == ccli_line_inject(line, s, pos, bufsiz, room, junk, oob)
        IN  LineDo("inject", r.l, r.ret)

LReset == LineDo("reset", line_reset(line), 0)

LineNext ==
    \/ LInsert \/ LNewline \/ LLeft \/ LRight \/ LHome \/ LEnd
    \/ LLeftWord \/ LRightWord \/ LBackspace \/ LDelete
    \/ LDelWord \/ LDelBeginning \/ LReplace \/ LInject \/ LReset

SpecLine == LineInit /\ [][LineNext]_vars

\* C1: after every line-buffer operation 0 <= start <= pos <= len < capacity
\* and the byte at index len is 0.
C1_LineBufferInvariant ==
    /\ 0 <= line.start
    /\ line.start <= line.pos
    /\ line.pos <= line.len
    /\ line.len < line.size
    /\ line.buf[line.len] = NUL

\* the operations that only move the cursor
Motions == {"left", "right", "home", "end", "left_word", "right_word"}

\* C35: Left, Right, Home, End, LeftWord and RightWord change nothing but
\* pos, and they keep pos within [start, len]: applied to a line whose cursor
\* is there, none of them moves it into the prefix before start or past len.
C35_MotionsOnlyMoveCursor ==
    [][(op' \in Motions /\ line.start <= line.pos /\ line.pos <= line.len) =>
           /\ line' = [line EXCEPT !.pos = line'.pos]
           /\ line'.start <= line'.pos
           /\ line'.pos <= line'.len]_vars

---------------------------------------------------------------------------
(* SpecReg: the application registers and unregisters commands and runs    *)
(* lines with ccli_execute(), in any order.                                *)

RegNames == {EXIT_STR, <<CH_a>>, <<CH_b>>}
RegData == {NULLPTR, 1}
RegLines == {<<>>, EXIT_STR, <<CH_a>>, <<CH_SPACE, CH_b, CH_SPACE, CH_a>>}

\* ghost.latest[name]: the callback and data of the latest registration of
\* name, how many times it was registered since it was last absent (2 stands
\* for more), and whether an unregistration removed it
NoReg == [callback |-> NULLCB, data |-> NULLPTR, times |-> 0, removed |-> FALSE]

RegInit ==
    /\ Boot(RegBufSiz)
    /\ schar = TRUE
    /\ pc = "setup"
    /\ ghost = [Ghost0 EXCEPT
                  !.latest = [name \in RegNames |->
                                 IF name = EXIT_STR
                                 THEN [callback |-> "exec_exit", data |-> NULLPTR,
                                       times |-> 1, removed |-> FALSE]
                                 ELSE NoReg]]

RegFrame == UNCHANGED <<line, bufsiz, schar, file, tab, out, pc, srch, inq, eof, used>>

RegRegister ==
    \E name \in RegNames, cb \in UserCallbacks \cup {NULLCB}, data \in RegData :
        LET r == ccli_register_command(ccli, name, cb, data)
        IN  /\ ccli' = r.c
            /\ op' = "register"
            /\ opret' = r.ret
            /\ calls' = <<>>
            /\ ghost' = [ghost EXCEPT
                           !.arg = name, !.prev = ccli.commands,
                           !.latest[name] =
                               IF r.ret = 0
                               THEN [callback |-> cb, data |-> data,
                                     times |-> Min(@.times + 1, 2), removed |-> FALSE]
                               ELSE @]
            /\ RegFrame

RegUnregister ==
    \E name \in RegNames :
        LET r == ccli_unregister_command(ccli, name)
        IN  /\ ccli' = r.c
            /\ op' = "unregister"
            /\ opret' = r.ret
            /\ calls' = <<>>
            /\ ghost' = [ghost EXCEPT
                           !.arg = name, !.prev = ccli.commands,
                           !.latest[name] =
                               IF r.ret = 0 THEN [NoReg EXCEPT !.removed = TRUE] ELSE @]
            /\ RegFrame

RegExecute ==
    \E s \in RegLines :
        LET r == ccli_execute(ccli, s, FALSE, bufsiz)
        IN  /\ ccli' = r.c
            /\ op' = "execute"
            /\ opret' = r.ret
            /\ calls' = r.calls
            /\ ghost' = [ghost EXCEPT !.arg = s, !.prev = ccli.commands]
            /\ RegFrame

RegNext == RegRegister \/ RegUnregister \/ RegExecute

SpecReg == RegInit /\ [][RegNext]_vars

\* the first word of the line the last ccli_execute() ran, <<>> if it has none
ExecutedName ==
    IF op = "execute" /\ line_parse(ghost.arg).argc > 0
    THEN line_parse(ghost.arg).argv[1] ELSE <<>>

\* C8: after any sequence of register and unregister calls the registry holds
\* at most one record per command name, and dispatching a name invokes the
\* callback with the data of the most recent registration of that name.
C8_OneRecordLatestWins ==
    /\ \A i, j \in 1 .. Len(ccli.commands) :
          ccli.commands[i].cmd = ccli.commands[j].cmd => i = j
    /\ (ExecutedName \in RegNames /\ ghost.latest[ExecutedName].times > 0) =>
          /\ Len(calls) = 1
          /\ calls[1].callback = ghost.latest[ExecutedName].callback
          /\ calls[1].data = ghost.latest[ExecutedName].data

\* a line naming a command that was registered again is dispatched, with two
\* other names in the registry
C8_Witness ==
    /\ ExecutedName \in RegNames
    /\ ghost.latest[ExecutedName].times = 2
    /\ Len(ccli.commands) = 3
    /\ calls[1].callback = "cb_quit"
    /\ calls[1].data = 1

\* the records of a registry that are not named name, in their order
Others(cmds, name) ==
    LET Keep(r) == r.cmd # name IN SelectSeq(cmds, Keep)

\* C9: unregistering a name removes exactly that record (the built-in exit
\* included): afterwards a line naming it is dispatched to the unknown hook,
\* and every other record stays registered with its callback, data and
\* relative order unchanged.
C9_UnregisterRemovesExactlyThat ==
    /\ (op = "unregister" /\ opret = 0) =>
          /\ find_command(ccli, ghost.arg) = 0
          /\ Len(ccli.commands) = Len(ghost.prev) - 1
          /\ ccli.commands = Others(ghost.prev, ghost.arg)
    /\ (ExecutedName \in RegNames /\ ghost.latest[ExecutedName].removed) =>
          /\ Len(calls) = 1
          /\ calls[1].callback = ccli.unknown.callback
          /\ calls[1].data = ccli.unknown.data
          /\ calls[1].command = ExecutedName

\* exit, the first of three records, is unregistered
C9_Witness ==
    /\ op = "unregister"
    /\ opret = 0
    /\ ghost.arg = EXIT_STR
    /\ Len(ghost.prev) = 3
    /\ ghost.prev[1].cmd = EXIT_STR
    /\ Len(ccli.commands) = 2


---------------------------------------------------------------------------
(* SpecHist: the loop is fed decoded keys that edit the line and walk the  *)
(* history, the application adds lines with ccli_execute() and reads the   *)
(* history with ccli_history().                                            *)

\* what out-of-bounds reads of the history array may yield
WildStrs == {NIL, <<CH_a>>}

Env(room, junk, oob, wild) ==
    [chunk |-> bufsiz, room |-> room, junk |-> junk, oob |-> oob, wild |-> wild,
     schar |-> schar]

\* the history state the properties compare with
Snapshot ==
    [current |-> ccli.current_line, size |-> ccli.history_size,
     line |-> CStr(line), history |-> ccli.history]

\* execute() adds the line to the history unless it holds no word
Adds(str) == line_parse(str).argc > 0

HistLoopKeys ==
    {CH_a, CH_NL, CHAR_UP, CHAR_DOWN, CHAR_PAGEUP, CHAR_PAGEDOWN, CHAR_REVERSE,
     CHAR_BACKSPACE}
HistSearchKeys ==
    {CH_a, CHAR_REVERSE, CHAR_BACKSPACE, CHAR_INTR, CH_NL, CHAR_UP, CHAR_DOWN}

HistInit ==
    /\ Boot(HistBufSiz)
    /\ schar = TRUE
    /\ pc = "loop"
    /\ ghost = [Ghost0 EXCEPT !.before = Snapshot, !.added = FALSE]

\* the model stops at an access outside the history array or the line buffer
HistAlive == ~ccli.ub /\ ~Broken(line)

\* the state after the turn t of the loop for the key r
HistTurn(t, r) ==
    /\ line' = t.l
    /\ ccli' = t.c
    /\ srch' = t.sr
    /\ pc' = t.pc
    /\ op' = t.key
    /\ opret' = t.ret
    /\ calls' = t.calls
    /\ ghost' = [ghost EXCEPT
                   !.arg = 0, !.before = Snapshot,
                   !.added = t.key = "enter" /\ Adds(CStr(line)),
                   !.started = IF t.key = "reverse" THEN ccli.current_line
                               ELSE IF t.pc = "search" \/ t.key = "search_cancel" THEN @
                               ELSE 0,
                   !.walk = IF t.key = "up" /\ ccli.current_line = ccli.history_size
                            THEN [on |-> TRUE, line |-> CStr(line),
                                  history |-> ccli.history]
                            ELSE IF t.key \in {"up", "down"}
                                    /\ ccli.current_line < ccli.history_size
                            THEN @
                            ELSE Ghost0.walk,
                   !.submitted = IF t.key = "enter" /\ Adds(CStr(line))
                                 THEN Append(@, CStr(line)) ELSE @]
    /\ UNCHANGED <<bufsiz, schar, file, tab, out, inq, eof, used>>

\* the bounds: lines and needles of at most MaxLine bytes, MaxHistSize
\* entries, a search position at most MaxBelow under the first entry
HistWithin(r, buf) ==
    /\ r = CH_a => buf.len < MaxLine
    /\ (r = CHAR_REVERSE /\ pc = "search") => srch.pos > 0 - MaxBelow
    /\ (r = CH_NL /\ Adds(CStr(line))) => ccli.history_size < MaxHistSize

HLoopKey ==
    /\ pc = "loop"
    /\ HistAlive
    /\ \E r \in HistLoopKeys, oob \in WildBytes, wild \in WildStrs :
          /\ HistWithin(r, line)
          /\ HistTurn(LoopRead(ccli, line, r,
                               Env(MaxChunks * bufsiz, Zeros(bufsiz), oob, wild)), r)

HSearchKey ==
    /\ pc = "search"
    /\ HistAlive
    /\ \E r \in HistSearchKeys, oob \in WildBytes, wild \in WildStrs :
          /\ HistWithin(r, srch.search)
          /\ HistTurn(SearchRead(ccli, line, srch, r,
                                 Env(MaxChunks * bufsiz, Zeros(bufsiz), oob, wild)), r)

HExecute ==
    /\ pc = "loop"
    /\ HistAlive
    /\ ccli.history_size < MaxHistSize
    /\ \E str \in {<<CH_a>>, <<CH_a, CH_a>>}, hist \in BOOLEAN :
          LET r == ccli_execute(ccli, str, hist, bufsiz)
          IN  /\ ccli' = r.c
              /\ op' = IF hist THEN "execute" ELSE "execute_nohist"
              /\ opret' = r.ret
              /\ calls' = r.calls
              /\ ghost' = [ghost EXCEPT !.arg = str, !.before = Snapshot,
                                        !.added = hist,
                                        !.walk = Ghost0.walk,
                                        !.submitted = IF hist THEN Append(@, str)
                                                      ELSE @]
              /\ UNCHANGED <<line, bufsiz, schar, file, tab, out, pc, srch, inq, eof, used>>

HQuery ==
    /\ pc = "loop"
    /\ HistAlive
    /\ \E past \in 0 .. MaxHistSize, wild \in WildStrs :
          /\ op' = "ccli_history"
          /\ opret' = ccli_history(ccli, past, wild)
          /\ calls' = <<>>
          /\ ghost' = [ghost EXCEPT !.arg = past, !.before = Snapshot,
                                    !.added = FALSE]
          /\ UNCHANGED <<line, bufsiz, schar, file, tab, out, ccli, pc, srch, inq, eof, used>>

HistNext == HLoopKey \/ HSearchKey \/ HExecute \/ HQuery

SpecHist == HistInit /\ [][HistNext]_vars

\* C28: Ctrl-C inside the reverse search puts ccli->current_line back to what
\* it was when the search started and leaves the line buffer empty; no
\* callback is invoked.
C28_SearchAbortRestores ==
    op = "search_cancel" =>
        /\ ccli.current_line = ghost.started
        /\ line.len = 0
        /\ line.pos = 0
        /\ line.start = 0
        /\ CStr(line) = <<>>
        /\ calls = <<>>
        /\ pc = "loop"

\* the search had found an older entry and shown it before the Ctrl-C
C28_Witness ==
    /\ op = "search_cancel"
    /\ ghost.before.current # ghost.started
    /\ ghost.before.line # <<>>
    /\ ccli.current_line = ghost.started
    /\ line.len = 0


\* C39: Up pressed one or more times on the line being composed and then
\* Down until current = size, with no other key in between, leaves the buffer
\* holding exactly the line that was being composed, the scratch slot
\* temp_line freed, and every ring entry as it was.
C39_UpDownRoundTrip ==
    ghost.walk.on =>
        /\ ccli.history = ghost.walk.history
        /\ (op = "down" /\ ccli.current_line = ccli.history_size) =>
              /\ CStr(line) = ghost.walk.line
              /\ line.len = Len(ghost.walk.line)
              /\ ccli.temp_line = NIL

\* two Ups from a line in progress, then Down has come back to it
C39_Witness ==
    /\ ghost.walk.on
    /\ op = "down"
    /\ ccli.current_line = ccli.history_size
    /\ ghost.before.current < ccli.history_size
    /\ ccli.history_size >= 2
    /\ ghost.walk.line = <<CH_a>>
    /\ ghost.walk.line # ghost.before.line
    /\ CStr(line) = ghost.walk.line

\* the history entry with the index i, and the indices from the oldest
\* accessible entry up to from whose entry contains needle
Entry(c, i) == HistRead(c, history_idx(c, i), NIL)
Containing(c, needle, from) ==
    {i \in Max(0, c.history_size - c.history_max) .. from :
        i < c.history_size /\ Entry(c, i) # NIL /\ StrStr(Entry(c, i), needle) # -1}

\* C38: in the reverse search, after each change of the needle and after each
\* Ctrl-R the match is the newest accessible entry at or before the search
\* position that contains the needle; Ctrl-R first moves the position one
\* entry back and passes over entries equal to the match shown.  On a hit
\* the buffer holds the entry, the cursor is at the end of the matched
\* substring and current is the entry's index; on a miss the buffer and
\* current stay as they were.
C38_SearchFindsNewest ==
    [][(pc = "search" /\ op' = "search_key") =>
          LET needle == CStr(srch'.search)
              changed == needle # CStr(srch.search)
              again == ~changed /\ srch'.pos < srch.pos
              all == Containing(ccli, needle, IF again THEN srch.pos - 1 ELSE srch.pos)
              fresh == {i \in all : Entry(ccli, i) # CStr(line)}
              Newest(S) == CHOOSE i \in S : \A j \in S : j <= i
              Hit(i) ==
                  /\ CStr(line') = Entry(ccli, i)
                  /\ line'.pos = StrStr(Entry(ccli, i), needle) + Len(needle)
                  /\ ccli'.current_line = i
              Miss ==
                  /\ CStr(line') = CStr(line)
                  /\ line'.pos = line.pos
                  /\ ccli'.current_line = ccli.current_line
          IN  /\ changed => IF all # {} THEN Hit(Newest(all)) ELSE Miss
              /\ again =>
                    \/ fresh # {} /\ Hit(Newest(fresh))
                    \/ all # {} /\ Hit(Newest(all))
                    \/ fresh = {} /\ Miss]_vars

\* C4: ccli_history(past) returns the line submitted `past' submissions ago
\* when 1 <= past <= min(size, history_max), and NIL for every other past.
C4_HistoryLookup ==
    op = "ccli_history" =>
        IF 1 <= ghost.arg /\ ghost.arg <= Min(ccli.history_size, ccli.history_max)
        THEN opret = ghost.submitted[ccli.history_size - ghost.arg + 1]
        ELSE opret = NIL

\* C5: after any sequence of history add, Up, Down, PageUp, PageDown and
\* reverse-search steps, current lies in [max(0, size - history_max + 1), size].
C5_CurrentInWindow ==
    /\ ccli.current_line >= Max(0, ccli.history_size - ccli.history_max + 1)
    /\ ccli.current_line <= ccli.history_size

\* C12: a dispatched line with at least one argument is appended to the
\* history ring exactly once, as the raw line, when history recording is on
\* (Enter in the loop, ccli_execute() with hist true): the size grows by one,
\* the newest slot holds the line and no other slot changes; ccli_execute()
\* with hist false leaves the ring unchanged.
C12_DispatchRecordsOnce ==
    LET b == ghost.before
        raw == IF op = "enter" THEN b.line ELSE ghost.arg
        idx == history_idx(ccli, b.size)
    IN  /\ op = "execute_nohist" =>
              /\ ccli.history = b.history
              /\ ccli.history_size = b.size
        /\ (op \in {"enter", "execute"} /\ Adds(raw)) =>
              /\ ccli.history_size = b.size + 1
              /\ Len(ccli.history) = Min(b.size + 1, ccli.history_max)
              /\ HistRead(ccli, idx, NIL) = raw
              /\ \A k \in 0 .. Len(b.history) - 1 :
                    k # idx => HistRead(ccli, k, NIL) = b.history[k + 1]

\* Enter on a line with a word when the ring is full: the oldest slot is
\* overwritten by the line
C12_Witness ==
    /\ op = "enter"
    /\ Adds(ghost.before.line)
    /\ ghost.before.size >= ccli.history_max
    /\ HistRead(ccli, history_idx(ccli, ghost.before.size), NIL) = ghost.before.line

\* C6: after a line is added to the history, from any prior navigation state,
\* current equals size and no scratch string is retained.
C6_AddResetsNavigation ==
    ghost.added =>
        /\ ccli.current_line = ccli.history_size
        /\ ccli.temp_line = NIL

\* C7: every Up/Down navigation that moves saves the displayed buffer: into
\* the ring slot of the entry being left when current < size, and into scratch
\* (never into a ring slot) when the line being left is the fresh line.
C7_NavigationSaves ==
    (/\ op \in {"up", "down", "pageup", "pagedown"}
     /\ ccli.current_line # ghost.before.current) =>
        IF ghost.before.current < ghost.before.size
        THEN HistRead(ccli, history_idx(ccli, ghost.before.current), NIL)
                 = ghost.before.line
        ELSE /\ ccli.temp_line = ghost.before.line
             /\ ccli.history = ghost.before.history

---------------------------------------------------------------------------
(* Spec: the application configures a new descriptor and calls ccli_loop(); *)
(* the user types chunks of bytes, the input may end, and every turn of the *)
(* loop takes one key from read_char().                                     *)

\* what the user types in one go: a, space, Enter, "exit", Ctrl-C, Ctrl-R,
\* DEL, the Up arrow, and the byte 0xFF
Chunks ==
    {<<CH_a>>, <<CH_SPACE>>, <<CH_NL>>, EXIT_STR, <<3>>, <<18>>, <<127>>,
     <<27, 91, 65>>, <<255>>}

\* command names the application registers or unregisters before the loop
SetupNames == {EXIT_STR, <<CH_a>>}

Init ==
    /\ Boot(LoopBufSiz)
    /\ schar \in BOOLEAN
    /\ pc = "setup"
    /\ ghost = Ghost0

\* one call of the registration interface before ccli_loop()
SetupDo(name, r, arg) ==
    /\ pc = "setup"
    /\ used.setup < MaxSetup
    /\ ccli' = r.c
    /\ op' = name
    /\ opret' = r.ret
    /\ calls' = <<>>
    /\ used' = [used EXCEPT !.setup = @ + 1]
    /\ ghost' = [ghost EXCEPT !.arg = arg,
                              !.kept = @ /\ ~(arg = EXIT_STR /\ r.ret = 0)]
    /\ UNCHANGED <<line, bufsiz, schar, file, tab, out, pc, srch, inq, eof>>

Register ==
    \E name \in SetupNames, cb \in UserCallbacks :
        SetupDo("register", ccli_register_command(ccli, name, cb, 1), name)

Unregister ==
    \E name \in SetupNames :
        SetupDo("unregister", ccli_unregister_command(ccli, name), name)

RegisterDefault ==
    \E cb \in UserCallbacks :
        SetupDo("register_default", ccli_register_default(ccli, cb, 1), <<>>)

RegisterUnknown ==
    \E cb \in UserCallbacks :
        SetupDo("register_unknown", ccli_register_unknown(ccli, cb, 1), <<>>)

RegisterInterrupt ==
    \E cb \in UserInterrupts :
        SetupDo("register_interrupt", ccli_register_interrupt(ccli, cb, 1), <<>>)

\* ccli_loop() up to its first read_char()
Start ==
    /\ pc = "setup"
    /\ pc' = "loop"
    /\ line' = line_init(bufsiz)
    /\ op' = "ccli_loop"
    /\ opret' = 0
    /\ calls' = <<>>
    /\ UNCHANGED <<bufsiz, schar, file, tab, out, ccli, srch, inq, eof, used, ghost>>

\* ccli_loop() when line_init() cannot allocate the buffer: it returns -1
StartFails ==
    /\ pc = "setup"
    /\ pc' = "failed"
    /\ op' = "ccli_loop"
    /\ opret' = 0
    /\ calls' = <<>>
    /\ UNCHANGED <<line, bufsiz, schar, file, tab, out, ccli, srch, inq, eof, used, ghost>>

\* the value ccli_loop() has returned when pc is "done" or "failed"
ccli_loop_ret == IF pc = "failed" THEN 0 - 1 ELSE 0

\* read() has delivered everything that was typed
Drained == read_char(inq, FALSE).status = "block"

\* the user types a chunk while the loop waits for input
Type ==
    /\ pc \in {"loop", "search"}
    /\ ~eof
    /\ Drained
    /\ used.keys < MaxKeys
    /\ \E chunk \in Chunks : inq' = inq \o chunk
    /\ used' = [used EXCEPT !.keys = @ + 1]
    /\ UNCHANGED <<line, bufsiz, schar, file, tab, out, ccli, pc, srch, eof, op, opret, calls, ghost>>

\* the input ends: read() returns 0 from now on
Close ==
    /\ pc \in {"loop", "search"}
    /\ ~eof
    /\ Drained
    /\ eof' = TRUE
    /\ UNCHANGED <<line, bufsiz, schar, file, tab, out, ccli, pc, srch, inq, used, op, opret, calls,
                   ghost>>

\* the keys whose handling reads line->line as a string outside a callback
ReadsLine ==
    {"up", "down", "pageup", "pagedown", "reverse", "search_key", "search_cancel"}

\* the state after the turn t of the loop; d is what read_char() returned
LoopStep(t, d, oob) ==
    /\ line' = t.l
    /\ ccli' = IF Unterminated(line) /\ t.key \in ReadsLine
               THEN [t.c EXCEPT !.ub = TRUE] ELSE t.c
    /\ srch' = t.sr
    /\ pc' = t.pc
    /\ op' = t.key
    /\ opret' = t.ret
    /\ calls' = t.calls
    /\ inq' = d.rest
    /\ used' = [used EXCEPT !.eofs = IF d.err THEN @ + 1 ELSE @]
    /\ ghost' = [ghost EXCEPT
                   !.arg = d.ch,
                   !.err = d.err,
                   !.entered = IF t.key = "enter"
                               THEN [line |-> LineStr(line, oob),
                                     typed |-> ghost.typed, plain |-> ghost.plain]
                               ELSE @,
                   !.typed = CASE t.key = "insert" -> Append(@, d.ch)
                               [] t.key = "enter" -> <<>>
                               [] OTHER -> @,
                   !.plain = CASE t.key = "insert" -> @
                               [] t.key = "enter" -> TRUE
                               [] OTHER -> FALSE]
    /\ out' = Echoed(t.calls)
    /\ UNCHANGED <<bufsiz, schar, file, tab, eof>>

\* the loop runs while no access has gone outside an allocation
Alive == ~ccli.ub /\ ~Broken(line) /\ ~Broken(srch.search)

\* one turn of the while loop of ccli_loop()
Read ==
    /\ pc = "loop"
    /\ Alive
    /\ LET d == read_char(inq, eof)
       IN  /\ d.status = "ok"
           /\ d.err => used.eofs < MaxEofs
           /\ \E oob \in WildBytes, wild \in WildStrs,
                 room \in RoomsFor(line, 1), junk \in JunkFor(line, 1) :
                 LoopStep(LoopRead(ccli, line, d.ch, Env(room, junk, oob, wild)),
                          d, oob)

\* one turn of the for loop of history_search(), and of the loop when
\* history_search() hands the key back
ReadSearch ==
    /\ pc = "search"
    /\ Alive
    /\ LET d == read_char(inq, eof)
       IN  /\ d.status = "ok"
           /\ d.err => used.eofs < MaxEofs
           /\ \E oob \in WildBytes, wild \in WildStrs,
                 room \in RoomsFor(srch.search, 1), junk \in JunkFor(srch.search, 1) :
                 LoopStep(SearchRead(ccli, line, srch, d.ch,
                                     Env(room, junk, oob, wild)),
                          d, oob)

Next ==
    \/ Register
    \/ Unregister
    \/ RegisterDefault
    \/ RegisterUnknown
    \/ RegisterInterrupt
    \/ Start
    \/ StartFails
    \/ Type
    \/ Close
    \/ Read
    \/ ReadSearch

Spec == Init /\ [][Next]_vars

\* C2: for every line submitted with Enter whose first word is a registered
\* command name, that command's callback is invoked exactly once, with the
\* data given at registration, with `line' equal to the bytes typed before
\* Enter and with argc/argv equal to the tokenisation of that line.
C2_RegisteredCommandInvoked ==
    LET typed == ghost.entered.typed
        a == line_parse(typed)
        i == IF a.argc > 0 THEN find_command(ccli, a.argv[1]) ELSE 0
    IN  (op = "enter" /\ ghost.entered.plain /\ i # 0) =>
            calls = <<CallRec(ccli.commands[i].callback, ccli.commands[i].cmd,
                              typed, ccli.commands[i].data, a.argc, a.argv)>>

\* C3: the event loop has ended if and only if a command callback, the enter
\* hook, the unknown hook or the interrupt hook returned non-zero, or the
\* decoder reported the end of the input; after every other key it reads on.
C3_LoopExitsIff ==
    pc # "setup" => ((pc = "done") <=> (opret # 0 \/ ghost.err))

\* C10: when "exit" was neither unregistered nor replaced, submitting the line
\* "exit" invokes the command registered at construction, it returns non-zero,
\* and the loop ends without reading further input.
C10_ExitEndsLoop ==
    (op = "enter" /\ ghost.entered.line = EXIT_STR /\ ghost.kept) =>
        /\ calls = <<CallRec("exec_exit", EXIT_STR, EXIT_STR, NULLPTR, 1,
                             <<EXIT_STR>>)>>
        /\ opret # 0
        /\ pc = "done"
        /\ ~ENABLED Read
        /\ ~ENABLED ReadSearch

\* the user typed e, x, i, t and Enter on a descriptor whose exit command is
\* the one of ccli_alloc(), and the loop has ended
C10_Witness ==
    /\ op = "enter"
    /\ ghost.entered.line = EXIT_STR
    /\ ghost.entered.typed = EXIT_STR
    /\ ghost.kept
    /\ Len(calls) = 1
    /\ calls[1].callback = "exec_exit"
    /\ pc = "done"

\* C11: ccli_loop() returns 0 on success, that is when the loop was exited
\* via a command (a callback returned non-zero), and returns -1 on error.
C11_LoopReturnValue ==
    pc \in {"done", "failed"} =>
        IF opret # 0 THEN ccli_loop_ret = 0 ELSE ccli_loop_ret = 0 - 1


---------------------------------------------------------------------------
(* SpecAlias: aliases and commands are registered and lines are handed to  *)
(* execute(), with and without recording them in the history.              *)

MaxAliasOps == 3

AliasNames == {<<CH_a>>, <<CH_b>>}
\* the empty command removes the alias
AliasCommands == {<<>>, <<CH_a, CH_SPACE, CH_b>>, <<CH_b>>, <<CH_a>>}
AliasLines == {<<CH_a>>, <<CH_a, CH_SPACE, CH_a>>, <<CH_b>>}

AliasInit ==
    /\ Boot(RegBufSiz)
    /\ schar = FALSE
    /\ pc = "loop"
    /\ ghost = Ghost0

ARegisterAlias ==
    /\ used.setup < MaxAliasOps
    /\ \E name \in AliasNames, command \in AliasCommands :
          LET r == ccli_register_alias(ccli, name, command)
          IN  /\ ccli' = r.c
              /\ op' = "register_alias"
              /\ opret' = r.ret
              /\ calls' = <<>>
              /\ used' = [used EXCEPT !.setup = @ + 1]
              /\ ghost' = [ghost EXCEPT !.arg = name, !.before = Snapshot]
              /\ UNCHANGED <<line, bufsiz, schar, file, tab, out, pc, srch, inq, eof>>

ARegisterCommand ==
    /\ used.setup < MaxAliasOps
    /\ \E name \in AliasNames, cb \in UserCallbacks :
          LET r == ccli_register_command(ccli, name, cb, 1)
          IN  /\ ccli' = r.c
              /\ op' = "register"
              /\ opret' = r.ret
              /\ calls' = <<>>
              /\ used' = [used EXCEPT !.setup = @ + 1]
              /\ ghost' = [ghost EXCEPT !.arg = name, !.before = Snapshot]
              /\ UNCHANGED <<line, bufsiz, schar, file, tab, out, pc, srch, inq, eof>>

ADispatch ==
    /\ ccli.history_size < MaxHistSize
    /\ \E l \in AliasLines, hist \in BOOLEAN :
          LET r == dispatch(ccli, l, hist)
          IN  /\ ccli' = r.c
              /\ op' = IF hist THEN "execute" ELSE "execute_nohist"
              /\ opret' = r.ret
              /\ calls' = r.calls
              /\ ghost' = [ghost EXCEPT !.arg = l, !.before = Snapshot,
                                        !.added = hist]
              /\ UNCHANGED <<line, bufsiz, schar, file, tab, out, pc, srch, inq, eof, used>>

AliasNext == ARegisterAlias \/ ARegisterCommand \/ ADispatch

SpecAlias == AliasInit /\ [][AliasNext]_vars

\* the last operation handed execute() a line whose first word names an alias
AliasRun ==
    /\ op \in {"execute", "execute_nohist"}
    /\ find_alias(ccli, line_parse(ghost.arg).argv[1]) # 0

\* the alias the last line named, and the line execute_alias() built from it
AliasOf == ccli.aliases[find_alias(ccli, line_parse(ghost.arg).argv[1])]
AliasLine == new_line(AliasOf.command, line_parse(ghost.arg).argv, 2)

\* the alias the last line named starts its command with its own name
SelfNaming ==
    /\ AliasRun
    /\ line_parse(AliasLine).argv[1] = AliasOf.alias

\* C13, as stated: while an alias is being executed, a line whose first word
\* names that alias goes to the unknown hook and is not expanded again.
C13_SelfNamingViaUnknown ==
    SelfNaming =>
        calls = <<CallRec(ccli.unknown.callback, AliasOf.alias, AliasLine,
                          ccli.unknown.data, line_parse(AliasLine).argc,
                          line_parse(AliasLine).argv)>>

\* C13, amended: while an alias is being executed, a line whose first word
\* names that alias is not expanded again; it is dispatched once, as built,
\* to the command registered under that name if there is one and to the
\* unknown hook otherwise.
C13_NotExpandedAgain ==
    SelfNaming =>
        LET k == find_command(ccli, AliasOf.alias)
        IN  /\ Len(calls) = 1
            /\ calls[1].line = AliasLine
            /\ calls[1].argv = line_parse(AliasLine).argv
            /\ calls[1].callback = IF k # 0 THEN ccli.commands[k].callback
                                   ELSE ccli.unknown.callback

\* the alias a = "a b" was run as "a a" with no command a: the unknown hook
\* got "a b a"
C13_Witness ==
    /\ SelfNaming
    /\ find_command(ccli, AliasOf.alias) = 0
    /\ Len(line_parse(ghost.arg).argv) = 2
    /\ Len(calls) = 1
    /\ calls[1].callback = "unknown_default"
    /\ calls[1].line = <<CH_a, CH_SPACE, CH_b, CH_SPACE, CH_a>>

\* C14: a line naming an alias whose command starts with the alias's own
\* name, when a command of that name is registered, invokes that command on
\* the line built from the alias.
C14_SelfNamingRunsCommand ==
    (SelfNaming /\ find_command(ccli, AliasOf.alias) # 0) =>
        LET cmd == ccli.commands[find_command(ccli, AliasOf.alias)]
        IN  /\ calls = <<CallRec(cmd.callback, cmd.cmd, AliasLine, cmd.data,
                                 line_parse(AliasLine).argc,
                                 line_parse(AliasLine).argv)>>
            /\ opret = Call(cmd.callback, ccli, cmd.cmd, AliasLine, cmd.data,
                            line_parse(AliasLine).argc, line_parse(AliasLine).argv)

\* the alias a = "a b" was run with the command a registered to cb_quit
C14_Witness ==
    /\ SelfNaming
    /\ AliasOf.command = <<CH_a, CH_SPACE, CH_b>>
    /\ find_command(ccli, AliasOf.alias) # 0
    /\ Len(calls) = 1
    /\ calls[1].callback = "cb_quit"
    /\ calls[1].command = <<CH_a>>
    /\ opret = 1

\* C15: when the first word of a line names an alias, the line dispatched is
\* the alias's command followed by the line's other arguments, and the history
\* gains one entry, the line as given; the line built is not recorded.
C15_AliasExpansionAndHistory ==
    (AliasRun /\ op = "execute") =>
        LET b == ghost.before
            idx == history_idx(ccli, b.size)
            j == find_alias(ccli, line_parse(AliasLine).argv[1])
        IN  /\ ccli.history_size = b.size + 1
            /\ Len(ccli.history) = Min(b.size + 1, ccli.history_max)
            /\ HistRead(ccli, idx, NIL) = ghost.arg
            /\ \A k \in 0 .. Len(b.history) - 1 :
                  k # idx => HistRead(ccli, k, NIL) = b.history[k + 1]
            /\ (j = 0 \/ ccli.aliases[j] = AliasOf) =>
                  /\ Len(calls) = 1
                  /\ calls[1].line = AliasLine

\* the alias a = "b" was run as "a a" and recorded: "b a" was dispatched and
\* "a a" is the newest entry of the history
C15_Witness ==
    /\ AliasRun
    /\ op = "execute"
    /\ ghost.arg = <<CH_a, CH_SPACE, CH_a>>
    /\ AliasOf.command = <<CH_b>>
    /\ Len(calls) = 1
    /\ calls[1].line = <<CH_b, CH_SPACE, CH_a>>
    /\ HistRead(ccli, history_idx(ccli, ghost.before.size), NIL) = ghost.arg
    /\ ghost.arg # calls[1].line


---------------------------------------------------------------------------
(* SpecTok: ccli_line_parse_multi() as a function.  Every line of at most  *)
(* MaxTokLen bytes over TokBytes is tokenised, with and without the        *)
(* delimiter ";", and the arguments found are quoted, joined and tokenised *)
(* again.                                                                  *)

MaxTokLen == 5

TokBytes == {CH_a, CH_SPACE, CH_BSLASH, CH_SQUOTE, CH_DQUOTE, CH_SEMI}
TokLines == UNION {[1 .. n -> TokBytes] : n \in 0 .. MaxTokLen}
TokDelims == {NIL, <<CH_SEMI>>}

TokInit ==
    /\ Boot(RegBufSiz)
    /\ schar = FALSE
    /\ pc = "loop"
    /\ \E l \in TokLines, d \in TokDelims :
          ghost = [Ghost0 EXCEPT !.arg = [line |-> l, delim |-> d]]

\* an argument in single quotes, with a backslash before every quote byte and
\* every backslash in it
RECURSIVE Escaped(_, _)
Escaped(arg, i) ==
    IF i > Len(arg) THEN <<>>
    ELSE (IF arg[i] \in {CH_SQUOTE, CH_DQUOTE, CH_BSLASH}
          THEN <<CH_BSLASH, arg[i]>> ELSE <<arg[i]>>) \o Escaped(arg, i + 1)
Requoted(arg) == <<CH_SQUOTE>> \o Escaped(arg, 1) \o <<CH_SQUOTE>>

\* the quoted arguments from the i-th on, joined with single spaces
RECURSIVE Joined(_, _)
Joined(argv, i) ==
    IF i > Len(argv) THEN <<>>
    ELSE IF i = Len(argv) THEN Requoted(argv[i])
    ELSE Requoted(argv[i]) \o <<CH_SPACE>> \o Joined(argv, i + 1)

TParse ==
    /\ op = "init"
    /\ op' = "line_parse"
    /\ opret' = ccli_line_parse_multi(ghost.arg.line, ghost.arg.delim)
    /\ UNCHANGED <<line, bufsiz, schar, file, tab, out, ccli, pc, srch, inq, eof, used, calls,
                   ghost>>

TReparse ==
    /\ op = "line_parse"
    /\ op' = "reparse"
    /\ opret' = ccli_line_parse_multi(Joined(opret.argv, 1), ghost.arg.delim)
    /\ ghost' = [ghost EXCEPT !.prev = opret.argv]
    /\ UNCHANGED <<line, bufsiz, schar, file, tab, out, ccli, pc, srch, inq, eof, used, calls>>

TokNext == TParse \/ TReparse

SpecTok == TokInit /\ [][TokNext]_vars

\* the arguments of a line as the rules of quoting and escaping give them:
\* q is the open quote, cur the argument being read when inword
RECURSIVE Tokens(_, _, _, _, _)
Tokens(s, p, q, cur, inword) ==
    IF p > Len(s) THEN IF inword THEN <<cur>> ELSE <<>>
    ELSE IF s[p] = CH_BSLASH
    THEN IF p = Len(s) THEN <<Append(cur, CH_BSLASH)>>
         ELSE Tokens(s, p + 2, q, Append(cur, s[p + 1]), TRUE)
    ELSE IF s[p] \in {CH_SQUOTE, CH_DQUOTE}
    THEN Tokens(s, p + 1, IF q = 0 THEN s[p] ELSE IF q = s[p] THEN 0 ELSE q,
                cur, TRUE)
    ELSE IF isspace(s[p]) /\ q = 0
    THEN (IF inword THEN <<cur>> ELSE <<>>) \o Tokens(s, p + 1, 0, <<>>, FALSE)
    ELSE Tokens(s, p + 1, q, Append(cur, s[p]), TRUE)

\* C16: the tokeniser splits a line at whitespace that is neither quoted nor
\* escaped, a run of whitespace separating once and giving no empty argument,
\* removes the unescaped quote bytes and replaces a backslash and the byte
\* after it with that byte, inside and outside quotes.
C16_TokeniserRules ==
    (op = "line_parse" /\ ghost.arg.delim = NIL) =>
        opret.argv = Tokens(ghost.arg.line, 1, 0, <<>>, FALSE)

\* C17: a backslash at the start of an argument escapes the next byte, which
\* becomes the first byte of the argument that follows, a whitespace byte
\* included.
C17_EscapeStartsArgument ==
    (/\ op = "line_parse"
     /\ ghost.arg.delim = NIL
     /\ Len(ghost.arg.line) >= 2
     /\ ghost.arg.line[1] = CH_BSLASH) =>
        /\ opret.argc >= 1
        /\ Len(opret.argv[1]) >= 1
        /\ opret.argv[1][1] = ghost.arg.line[2]

\* C18: the arguments found in a line, each put in single quotes with its
\* quote bytes and backslashes escaped, and joined with single spaces, are a
\* line that the tokeniser splits into the same arguments under the same
\* delimiter.
C18_RequoteRoundTrip ==
    op = "reparse" => opret.argv = ghost.prev

\* two arguments, one of them holding a space, a quote byte or a backslash,
\* came back from the quoted line
C18_Witness ==
    /\ op = "reparse"
    /\ Len(ghost.prev) = 2
    /\ \E i \in 1 .. 2 : \E k \in 1 .. Len(ghost.prev[i]) :
          ghost.prev[i][k] \in {CH_SPACE, CH_SQUOTE, CH_DQUOTE, CH_BSLASH}
    /\ opret.argv = ghost.prev
    /\ ghost.arg.delim # NIL


---------------------------------------------------------------------------
(* SpecDec: read_char() as a function of the bytes that arrive.  The input *)
(* is one sequence, of the decoder's table or outside it, followed by at   *)
(* most MaxDecTail further bytes and the end of the input; read_char() is  *)
(* called until it returns CHAR_ERROR.  ghost.latest is the list of the    *)
(* values returned so far and ghost.typed the bytes the last call took.    *)

MaxDecTail == 2

ESC == 27
CSI == <<ESC, 91>>

\* the sequences of the decoder's table with the key of each
DecTable ==
    {[seq |-> <<3>>, key |-> CHAR_INTR],
     [seq |-> <<18>>, key |-> CHAR_REVERSE],
     [seq |-> <<21>>, key |-> CHAR_DEL_BEGINNING],
     [seq |-> <<127>>, key |-> CHAR_BACKSPACE],
     [seq |-> <<ESC, 127>>, key |-> CHAR_DELWORD],
     [seq |-> CSI \o <<65>>, key |-> CHAR_UP],
     [seq |-> CSI \o <<66>>, key |-> CHAR_DOWN],
     [seq |-> CSI \o <<67>>, key |-> CHAR_RIGHT],
     [seq |-> CSI \o <<68>>, key |-> CHAR_LEFT],
     [seq |-> CSI \o <<72>>, key |-> CHAR_HOME],
     [seq |-> CSI \o <<70>>, key |-> CHAR_END],
     [seq |-> CSI \o <<49, 126>>, key |-> CHAR_HOME],
     [seq |-> CSI \o <<50, 126>>, key |-> CHAR_INSERT],
     [seq |-> CSI \o <<51, 126>>, key |-> CHAR_DEL],
     [seq |-> CSI \o <<52, 126>>, key |-> CHAR_END],
     [seq |-> CSI \o <<53, 126>>, key |-> CHAR_PAGEUP],
     [seq |-> CSI \o <<54, 126>>, key |-> CHAR_PAGEDOWN]}
    \cup {[seq |-> CSI \o <<n, 59, 53, 67>>, key |-> CHAR_RIGHT_WORD] : n \in 49 .. 54}
    \cup {[seq |-> CSI \o <<n, 59, 53, 68>>, key |-> CHAR_LEFT_WORD] : n \in 49 .. 54}
    \cup {[seq |-> <<b>>, key |-> b] :
             b \in {CH_a, CH_SPACE, CH_NL, CH_TAB, 53, 59, 67, 91, 126}}

\* escape sequences that leave the table at their last byte
UnknownSeqs ==
    UNION {{<<ESC, x>>, CSI \o <<x>>, CSI \o <<49, x>>, CSI \o <<53, x>>,
            CSI \o <<49, 59, x>>, CSI \o <<53, 59, x>>,
            CSI \o <<49, 59, 53, x>>, CSI \o <<53, 59, 53, x>>} :
           x \in {CH_a, CH_SPACE}}

DecTailBytes == {CH_a, 53, 67, 127}
DecTails == UNION {[1 .. n -> DecTailBytes] : n \in 0 .. MaxDecTail}

DecInit ==
    /\ bufsiz = RegBufSiz
    /\ line = line_init(RegBufSiz)
    /\ schar = FALSE
    /\ ccli = ccli_alloc
    /\ pc = "loop"
    /\ srch = NoSearch
    /\ eof = TRUE
    /\ used = [setup |-> 0, keys |-> 0, eofs |-> 0]
    /\ tab = 0
    /\ out = <<>>
    /\ file = <<>>
    /\ op = "init"
    /\ opret = 0
    /\ calls = <<>>
    /\ \E s \in {e.seq : e \in DecTable} \cup UnknownSeqs, t \in DecTails :
          /\ inq = s \o t
          /\ ghost = [Ghost0 EXCEPT !.arg = [seq |-> s, tail |-> t],
                                    !.latest = <<>>]

DRead ==
    /\ pc = "loop"
    /\ LET Got(r) ==
               /\ r.status = "ok"
               /\ inq' = r.rest
               /\ op' = "read_char"
               /\ opret' = r.ch
               /\ pc' = IF r.err THEN "done" ELSE "loop"
               /\ ghost' = [ghost EXCEPT
                               !.latest = Append(@, r.ch),
                               !.typed = SubSeq(inq, 1, Len(inq) - Len(r.rest))]
       IN  Got(read_char(inq, eof))
    /\ UNCHANGED <<line, bufsiz, schar, file, tab, out, ccli, srch, eof, used, calls>>

DecNext == DRead

SpecDec == DecInit /\ [][DecNext]_vars

\* C19: from the ground state each sequence of the table gives its key: 0x03
\* Interrupt, 0x12 ReverseSearch, 0x15 DeleteToStart, 0x7F Backspace, ESC 0x7F
\* DeleteWord, ESC [ A/B/C/D Up/Down/Right/Left, ESC [ H/F Home/End, ESC [ n ~
\* Home/Insert/Delete/End/PageUp/PageDown for n = 1..6, ESC [ n ; 5 C/D
\* RightWord/LeftWord, and a printable or whitespace byte gives itself; the
\* call takes the bytes of the sequence and no more.
C19_DecoderTable ==
    (op = "read_char" /\ Len(ghost.latest) = 1) =>
        \A e \in DecTable :
            ghost.arg.seq = e.seq =>
                /\ opret = e.key
                /\ ghost.typed = e.seq
                /\ inq = ghost.arg.tail

\* ESC [ 5 ; 5 D was read as LeftWord with two more bytes waiting
C19_Witness ==
    /\ op = "read_char"
    /\ Len(ghost.latest) = 1
    /\ ghost.arg.seq = CSI \o <<53, 59, 53, 68>>
    /\ opret = CHAR_LEFT_WORD
    /\ Len(inq) = 2
    /\ inq = ghost.arg.tail

\* the values read_char() returns for the bytes t up to the end of the input
RECURSIVE Keys(_)
Keys(t) ==
    LET Then(r) == IF r.err THEN <<r.ch>> ELSE <<r.ch>> \o Keys(r.rest)
    IN  Then(read_char(t, TRUE))

\* C20: an escape sequence outside the table is swallowed: nothing is
\* returned for any of its bytes, and the bytes after it are decoded as if it
\* had not been typed.
C20_UnknownSwallowed ==
    (pc = "done" /\ ghost.arg.seq \in UnknownSeqs) =>
        ghost.latest = Keys(ghost.arg.tail)


---------------------------------------------------------------------------
(* SpecComp: commands and completion callbacks are registered, then the    *)
(* loop is given keys, Tab among them.  The keys come decoded; realloc()   *)
(* succeeds and the memory it adds, which no key of CompKeys reads, is     *)
(* zero.                                                                   *)

CompBufSiz == 3
MaxCompSetup == 2
MaxCompKeys == 4

CH_e == 101
EXA == <<CH_e, 120, CH_a>>
CompNames == {AB, EXA}
CompKeys == {CH_a, CH_e, CH_SPACE, CH_TAB, CHAR_LEFT}

CompInit ==
    /\ Boot(CompBufSiz)
    /\ schar = FALSE
    /\ pc = "setup"
    /\ ghost = Ghost0

CompSetup(name, r) ==
    /\ pc = "setup"
    /\ used.setup < MaxCompSetup
    /\ ccli' = r.c
    /\ op' = name
    /\ opret' = r.ret
    /\ used' = [used EXCEPT !.setup = @ + 1]
    /\ UNCHANGED <<line, bufsiz, schar, file, tab, out, pc, srch, inq, eof, calls, ghost>>

CRegister ==
    \E name \in CompNames :
        CompSetup("register", ccli_register_command(ccli, name, "cb_stay", 1))

CRegisterCompletion ==
    \E name \in CompNames, cb \in UserCompletions :
        CompSetup("register_completion", ccli_register_completion(ccli, name, cb))

CRegisterDefaultCompletion ==
    \E cb \in UserCompletions :
        CompSetup("register_default_completion",
                  ccli_register_default_completion(ccli, cb, 1))

CStart ==
    /\ pc = "setup"
    /\ pc' = "loop"
    /\ op' = "ccli_loop"
    /\ UNCHANGED <<line, bufsiz, schar, file, tab, out, ccli, srch, inq, eof, used, opret,
                   calls, ghost>>

\* one turn of the loop of ccli_loop() on the key ch
CKey ==
    /\ pc = "loop"
    /\ used.keys < MaxCompKeys
    /\ \E ch \in CompKeys, oob \in WildBytes :
          LET env == Env((MaxCompKeys + 8) * bufsiz, Zeros(bufsiz), oob, NIL)
              Tabbed(r) ==
                  /\ line' = r.l
                  /\ tab' = tab + 1
                  /\ out' = r.out
                  /\ calls' = r.calls
                  /\ op' = "tab"
              Keyed(t) ==
                  /\ line' = t.l
                  /\ tab' = 0
                  /\ out' = <<>>
                  /\ calls' = t.calls
                  /\ op' = t.key
          IN  /\ IF ch = CH_TAB THEN Tabbed(do_completion(ccli, line, tab, env))
                 ELSE Keyed(LoopKey(ccli, line, ch, env))
              /\ ghost' = [ghost EXCEPT !.arg = ch, !.before = line,
                                        !.prev = [op |-> op, line |-> ghost.before]]
    /\ used' = [used EXCEPT !.keys = @ + 1]
    /\ UNCHANGED <<bufsiz, schar, file, ccli, pc, srch, inq, eof, opret>>

CompNext ==
    \/ CRegister
    \/ CRegisterCompletion
    \/ CRegisterDefaultCompletion
    \/ CStart
    \/ CKey

SpecComp == CompInit /\ [][CompNext]_vars

\* the bytes of the buffer l from index i up to index j - 1
Bytes(l, i, j) == [k \in 1 .. j - i |-> l.buf[i + k - 1]]

\* the word under the cursor of l and its index among the words before the
\* cursor: the last of them, or an empty word after it when the cursor follows
\* a space or nothing
CursorWord(l) ==
    LET Last(s, a) ==
            IF a.argc = 0 \/ isspace(s[Len(s)]) THEN [word |-> <<>>, idx |-> a.argc]
            ELSE [word |-> a.argv[a.argc], idx |-> a.argc - 1]
        Cut(s) == Last(s, line_parse(s))
    IN  Cut(Bytes(l, 0, l.pos))

\* the completion callback that is asked for the words after the cursor of l:
\* the one of the command named by the first word, else the default one
Asked(l) ==
    LET K(k) == IF k # 0 /\ ccli.commands[k].completion # NULLCB
                THEN ccli.commands[k].completion ELSE ccli.default_completion
    IN  K(IF CursorWord(l).idx = 0 THEN 0
          ELSE find_command(ccli, line_parse(Bytes(l, 0, l.pos)).argv[1]))

\* the candidates at the cursor of l: what the callback asked lists and, for
\* the first word, the names of the commands; none when the callback fails
Candidates(l) ==
    LET Of(r) == IF r.cnt < 0 THEN {}
                 ELSE {r.list[i] : i \in 1 .. r.cnt}
                      \cup (IF CursorWord(l).idx = 0
                            THEN {ccli.commands[i].cmd : i \in 1 .. Len(ccli.commands)}
                            ELSE {})
    IN  Of(CallCompletion(Asked(l)))

\* the candidates that start with the word under the cursor of l
Matching(l) ==
    {w \in Candidates(l) :
        /\ Len(w) >= Len(CursorWord(l).word)
        /\ SubSeq(w, 1, Len(CursorWord(l).word)) = CursorWord(l).word}

\* the buffer `before' with the bytes s inserted at its cursor
Inserted(before, s) ==
    /\ line.len = before.len + Len(s)
    /\ line.pos = before.pos + Len(s)
    /\ Bytes(line, 0, line.len) =
          Bytes(before, 0, before.pos) \o s \o Bytes(before, before.pos, before.len)

\* C21: when exactly one candidate matches the word under the cursor, Tab
\* inserts the rest of that candidate at the cursor and after it one
\* delimiter: a space, or the byte the completion callback left in place of
\* the terminator of match, and nothing when that byte is CCLI_NOSPACE.
C21_UniqueMatchCompletes ==
    (op = "tab" /\ Cardinality(Matching(ghost.before)) = 1) =>
        LET w == CHOOSE x \in Matching(ghost.before) : TRUE
            term == CallCompletion(Asked(ghost.before)).term
            rest == SubSeq(w, Len(CursorWord(ghost.before).word) + 1, Len(w))
        IN  Inserted(ghost.before,
                     rest \o (CASE term = NUL -> <<CH_SPACE>>
                                [] term = CCLI_NOSPACE -> <<>>
                                [] OTHER -> <<term>>))

\* the longest string that every word of the set M starts with
CommonPrefix(M) ==
    LET Of(w) ==
            SubSeq(w, 1,
                   CHOOSE n \in 0 .. Len(w) :
                       /\ \A v \in M : Len(v) >= n /\ SubSeq(v, 1, n) = SubSeq(w, 1, n)
                       /\ \A k \in n + 1 .. Len(w) :
                             \E v \in M : Len(v) < k \/ SubSeq(v, 1, k) # SubSeq(w, 1, k))
    IN  Of(CHOOSE w \in M : TRUE)

\* C22: when more than one candidate matches the word under the cursor, Tab
\* extends the word to the longest common prefix of the matching candidates
\* and inserts nothing else.
C22_CommonPrefixExtends ==
    (op = "tab" /\ Cardinality(Matching(ghost.before)) > 1) =>
        Inserted(ghost.before,
                 SubSeq(CommonPrefix(Matching(ghost.before)),
                        Len(CursorWord(ghost.before).word) + 1,
                        Len(CommonPrefix(Matching(ghost.before)))))

\* C23: the list of the matching candidates is written only by a Tab that
\* found more than one match and came right after another Tab; a first Tab and
\* a Tab after any other key write no list.
C23_ListOnlyOnRepeatedTab ==
    out # <<>> =>
        /\ op = "tab"
        /\ ghost.prev.op = "tab"
        /\ Cardinality(Matching(ghost.before)) > 1

\* "e" Tab Tab with the commands exa and exit: the second Tab wrote both
C23_Witness ==
    /\ op = "tab"
    /\ ghost.prev.op = "tab"
    /\ tab = 2
    /\ out = <<<<CH_NL>>, EXA, EXIT_STR>>
    /\ Bytes(line, 0, line.len) = <<CH_e, 120>>

\* C24 as stated: when exactly one candidate matches, a second Tab right after
\* the first leaves the buffer and the cursor as the first Tab left them.
C24_TabTwiceAsOnce ==
    (/\ op = "tab"
     /\ ghost.prev.op = "tab"
     /\ Cardinality(Matching(ghost.prev.line)) = 1) =>
        /\ line.len = ghost.before.len
        /\ line.pos = ghost.before.pos
        /\ Bytes(line, 0, line.len) = Bytes(ghost.before, 0, ghost.before.len)

\* C24: when exactly one candidate matches and no candidate matches the word
\* that is under the cursor after the first Tab, a second Tab right after the
\* first leaves the buffer and the cursor as the first Tab left them.
C24_TabTwiceWhenNothingFollows ==
    (/\ op = "tab"
     /\ ghost.prev.op = "tab"
     /\ Cardinality(Matching(ghost.prev.line)) = 1
     /\ Matching(ghost.before) = {}) =>
        /\ line.len = ghost.before.len
        /\ line.pos = ghost.before.pos
        /\ Bytes(line, 0, line.len) = Bytes(ghost.before, 0, ghost.before.len)

\* "a" Tab Tab with the commands ab and exit: the first Tab made it "ab "
C24_Witness ==
    /\ op = "tab"
    /\ ghost.prev.op = "tab"
    /\ Bytes(ghost.prev.line, 0, ghost.prev.line.len) = <<CH_a>>
    /\ Matching(ghost.prev.line) = {AB}
    /\ Matching(ghost.before) = {}
    /\ Bytes(ghost.before, 0, ghost.before.len) = <<CH_a, CH_b, CH_SPACE>>
    /\ Bytes(line, 0, line.len) = <<CH_a, CH_b, CH_SPACE>>

---------------------------------------------------------------------------
(* SpecCont: lines typed over several physical lines. The ccli_loop() under *)
(* src/ has no branch for a line that ends in a backslash; the step that    *)
(* turns Enter into CHAR_NEWLINE is the one of the loop of spec.md 4.9,     *)
(* around the line_state_escaped() and line_insert() of line.c.             *)
ContBufSiz == 3
MaxContKeys == 7
ContKeys == {CH_a, CH_b, CH_BSLASH, CH_NL}

\* what the loop writes when it opens a continuation line: "\n> "
CONT_PROMPT == <<CH_NL, 62, CH_SPACE>>

\* Enter in the loop: [t, out]
enter_key(c, l, env) ==
    IF line_state_escaped(l)
    THEN [t |-> Turn(c, line_insert(l, CHAR_NEWLINE, env.chunk, env.room, env.junk,
                                    env.oob).l,
                     NoSearch, "loop", 0, <<>>, "continuation"),
          out |-> <<CONT_PROMPT>>]
    ELSE [t |-> LoopKey(c, l, CH_NL, env), out |-> <<>>]

\* the bytes s without its last one
Chop(s) == SubSeq(s, 1, Len(s) - 1)

\* s ends in an odd number of backslashes
OddTail(s) ==
    \E k \in 1 .. Len(s) :
        /\ k % 2 = 1
        /\ \A i \in Len(s) - k + 1 .. Len(s) : s[i] = CH_BSLASH
        /\ (k < Len(s) => s[Len(s) - k] # CH_BSLASH)

ContInit ==
    /\ Boot(ContBufSiz)
    /\ schar = FALSE
    /\ pc = "loop"
    /\ ghost = [arg |-> 0, before |-> line_init(ContBufSiz), acc |-> <<>>,
                phys |-> <<>>, parts |-> 0, want |-> [line |-> NIL, parts |-> 0]]

\* one key of the loop; ghost.phys is the physical line typed so far, ghost.acc
\* the physical lines before it joined without their last backslash
KKey ==
    \E ch \in ContKeys, oob \in WildBytes :
        LET env == Env((MaxContKeys + 8) * bufsiz, Zeros(bufsiz), oob, NIL)
            r == IF ch = CH_NL THEN enter_key(ccli, line, env)
                 ELSE [t |-> LoopKey(ccli, line, ch, env), out |-> <<>>]
        IN  /\ pc = "loop"
            /\ used.keys < MaxContKeys
            /\ used' = [used EXCEPT !.keys = @ + 1]
            /\ line' = r.t.l
            /\ ccli' = r.t.c
            /\ pc' = r.t.pc
            /\ op' = r.t.key
            /\ opret' = r.t.ret
            /\ calls' = r.t.calls
            /\ out' = r.out
            /\ tab' = 0
            /\ ghost' =
                 IF ch # CH_NL
                 THEN [ghost EXCEPT !.arg = ch, !.before = line,
                                    !.phys = Append(@, ch),
                                    !.want = [line |-> NIL, parts |-> 0]]
                 ELSE IF OddTail(ghost.phys)
                 THEN [ghost EXCEPT !.arg = ch, !.before = line,
                                    !.acc = @ \o Chop(ghost.phys), !.phys = <<>>,
                                    !.parts = @ + 1,
                                    !.want = [line |-> NIL, parts |-> 0]]
                 ELSE [arg |-> ch, before |-> line, acc |-> <<>>, phys |-> <<>>,
                       parts |-> 0,
                       want |-> [line |-> ghost.acc \o ghost.phys,
                                 parts |-> ghost.parts + 1]]
            /\ UNCHANGED <<bufsiz, schar, file, srch, inq, eof>>

ContNext == KKey

SpecCont == ContInit /\ [][ContNext]_vars

\* C25: Enter on a buffer that ends in an odd number of backslashes submits
\* nothing: the last backslash is removed, start becomes len and "\n> " is
\* written; the Enter that does submit hands the callback the physical lines
\* joined, each without its last backslash.
C25_ContinuationJoins ==
    /\ (ghost.arg = CH_NL /\ OddTail(Bytes(ghost.before, 0, ghost.before.len))) =>
          /\ calls = <<>>
          /\ pc = "loop"
          /\ Bytes(line, 0, line.len) = Chop(Bytes(ghost.before, 0, ghost.before.len))
          /\ line.start = line.len
          /\ out = <<CONT_PROMPT>>
    /\ (ghost.arg = CH_NL /\ ghost.want.parts > 1) =>
          /\ Len(calls) = 1
          /\ calls[1].line = ghost.want.line

---------------------------------------------------------------------------
(* cache.c: tagged sections of lines in a file. A file is its bytes, an     *)
(* offset counts the bytes before it.                                       *)
CCLI_HISTORY_LINE_START ==
    <<35, 35, 35, 35, 45, 45, 45, 99, 99, 108, 105, 45, 45, 45, 35, 35, 35, 35>>
CCLI_HISTORY_LINE_END ==
    <<37, 37, 37, 37, 45, 45, 45, 99, 99, 108, 105, 45, 45, 45, 37, 37, 37, 37>>

\* snprintf("%d") of n >= 0
RECURSIVE Decimal(_)
Decimal(n) == IF n < 10 THEN <<48 + n>> ELSE Append(Decimal(n \div 10), 48 + (n % 10))

\* atoi() of the string s from index i on: white space, a sign, digits
RECURSIVE Digits(_, _, _)
Digits(s, i, n) ==
    IF i <= Len(s) /\ s[i] >= 48 /\ s[i] <= 57 THEN Digits(s, i + 1, 10 * n + s[i] - 48)
    ELSE n

RECURSIVE atoi(_, _)
atoi(s, i) ==
    IF i <= Len(s) /\ isspace(s[i]) THEN atoi(s, i + 1)
    ELSE IF i <= Len(s) /\ s[i] = 45 THEN 0 - Digits(s, i + 1, 0)
    ELSE IF i <= Len(s) /\ s[i] = 43 THEN Digits(s, i + 1, 0)
    ELSE Digits(s, i, 0)

\* write(fd, bytes) at offset off
Write(f, off, bytes) ==
    SubSeq(f, 1, off) \o bytes \o SubSeq(f, off + Len(bytes) + 1, Len(f))

\* read_line() on a file that can seek, in reads of `chunk' bytes:
\* [ret, line, off]. A line with no bytes returns before the offset is put
\* back behind its newline.
RECURSIVE ReadChunks(_, _, _, _, _)
ReadChunks(f, off0, pos, acc, chunk) ==
    LET r == Min(chunk, Len(f) - pos)
        buf == SubSeq(f, pos + 1, pos + r)
        nl == {k \in 1 .. r : buf[k] = CH_NL}
        len == IF nl = {} THEN r ELSE (CHOOSE k \in nl : \A j \in nl : k <= j) - 1
        got == acc \o SubSeq(buf, 1, len)
    IN  IF r <= 0
        THEN IF acc = <<>> THEN [ret |-> 0 - 1, line |-> <<>>, off |-> pos]
             ELSE [ret |-> Len(acc), line |-> acc, off |-> off0 + Len(acc) + 1]
        ELSE IF nl = {} THEN ReadChunks(f, off0, pos + r, got, chunk)
        ELSE IF got = <<>> THEN [ret |-> 0, line |-> <<>>, off |-> pos + r]
        ELSE [ret |-> Len(got), line |-> got, off |-> off0 + Len(got) + 1]

read_line(f, off, chunk) == ReadChunks(f, off, Min(off, Len(f)), <<>>, chunk)

\* has_tag(): the number after the first occurrence of tag in the line, -1
\* when the tag is not there or no space follows it; str is not looked at
has_tag(l, str, tag) ==
    LET At0(p) ==
            IF p < 0 THEN 0 - 1
            ELSE IF p + Len(tag) + 1 > Len(l) \/ l[p + Len(tag) + 1] # CH_SPACE THEN 0 - 1
            ELSE atoi(l, p + Len(tag) + 1)
    IN  At0(StrStr(l, tag))

\* remove_section(): the bytes behind the section move up over it; the file
\* keeps its length. [f, off]
remove_section(f, start, size) ==
    LET moved == Max(0, Len(f) - (start + size))
    IN  [f |-> SubSeq(f, 1, start) \o SubSeq(f, start + size + 1, Len(f))
                 \o SubSeq(f, start + moved + 1, Len(f)),
         off |-> start + moved]

\* write_callback(): one line and its newline
RECURSIVE write_lines(_)
write_lines(lines) ==
    IF lines = <<>> THEN <<>> ELSE Head(lines) \o <<CH_NL>> \o write_lines(Tail(lines))

\* cache_save_fd(): [f, off, ret]
cache_save_fd(f, off, start_tag, end_tag, tag, lines) ==
    LET sec == start_tag \o <<CH_SPACE>> \o tag \o <<CH_SPACE>> \o Decimal(Len(lines))
               \o <<CH_NL>> \o write_lines(lines)
               \o end_tag \o <<CH_SPACE>> \o tag \o <<CH_NL>>
    IN  IF lines = <<>> THEN [f |-> f, off |-> off, ret |-> 0]
        ELSE [f |-> Write(f, off, sec), off |-> off + Len(sec), ret |-> Len(lines)]

\* the loop of cache_save_file() and cache_load_fd() that looks for the
\* section: [lines, start, off]
RECURSIVE find_section(_, _, _, _, _)
find_section(f, off, start_tag, tag, chunk) ==
    LET Got(r) ==
            IF r.ret < 0 THEN [lines |-> 0 - 1, start |-> off, off |-> r.off]
            ELSE IF has_tag(r.line, start_tag, tag) < 0
            THEN find_section(f, r.off, start_tag, tag, chunk)
            ELSE [lines |-> has_tag(r.line, start_tag, tag), start |-> off,
                  off |-> r.off]
    IN  Got(read_line(f, off, chunk))

\* for (i = 0; i < cnt; i++) read_line(), stopping when it fails:
\* [off, read], read the lines and what read_line() returned for each
RECURSIVE read_lines(_, _, _, _, _)
read_lines(f, off, cnt, chunk, read) ==
    LET Got(r) ==
            IF r.ret < 0 THEN [off |-> r.off, read |-> read]
            ELSE read_lines(f, r.off, cnt - 1, chunk,
                            Append(read, [line |-> r.line, ret |-> r.ret]))
    IN  IF cnt <= 0 THEN [off |-> off, read |-> read]
        ELSE Got(read_line(f, off, chunk))

\* cache_save_file(): [f, ret]
cache_save_file(f, start_tag, end_tag, tag, lines, chunk) ==
    LET Saved(w) == [f |-> SubSeq(w.f, 1, w.off), ret |-> w.ret]
        Cut(s, end) ==
            LET Removed(g) ==
                    Saved(cache_save_fd(g.f, g.off, start_tag, end_tag, tag, lines))
            IN  IF s.lines >= 0
                THEN Removed(remove_section(f, s.start, end - s.start))
                ELSE Removed([f |-> f, off |-> end])
        Found(s) ==
            Cut(s, read_line(f, read_lines(f, s.off, s.lines, chunk, <<>>).off, chunk).off)
    IN  Found(find_section(f, 0, start_tag, tag, chunk))

\* cache_load_fd() on a descriptor at the start of the file: [ret, read], read
\* the lines handed to the callback
\* the lines handed to the callback.  cnt is set by has_tag() only: when the
\* first read_line() fails it holds wild, what the stack held
cache_load_fd(f, start_tag, end_tag, tag, chunk, wild) ==
    LET Found(s) == [ret |-> s.lines,
                     read |-> read_lines(f, s.off, s.lines, chunk, <<>>).read]
    IN  IF read_line(f, 0, chunk).ret < 0 THEN [ret |-> wild, read |-> <<>>]
        ELSE Found(find_section(f, 0, start_tag, tag, chunk))

\* values an uninitialised int may hold
WildCnts == {0 - 1, 0, 1}

---------------------------------------------------------------------------
(* history.c: saving the history to a descriptor and loading it.           *)

history_cnt(c) ==
    IF c.history_size > c.history_max THEN c.history_max ELSE c.history_size

\* the strings write_callback() writes for idx = 0 .. cnt - 1
SavedLines(c) ==
    [i \in 1 .. history_cnt(c) |->
        HistRead(c, history_idx(c, (i - 1) + c.history_size - history_cnt(c)), NIL)]

\* ccli_history_save_fd() on a descriptor at off: [f, off, ret]
ccli_history_save_fd(c, tag, f, off) ==
    IF history_cnt(c) = 0 THEN [f |-> f, off |-> off, ret |-> 0]
    ELSE cache_save_fd(f, off, CCLI_HISTORY_LINE_START, CCLI_HISTORY_LINE_END, tag,
                       SavedLines(c))

\* "exit" followed by white space only
IsExitLine(l) ==
    /\ Len(l) >= 4
    /\ SubSeq(l, 1, 4) = EXIT_STR
    /\ \A i \in 5 .. Len(l) : isspace(l[i])

read_callback(c, l, ret, idx, cnt) ==
    IF ret = 0 THEN c
    ELSE IF idx = cnt - 1 /\ IsExitLine(l) THEN c
    ELSE history_add(c, l)

\* the instance after read_callback() was handed read[i .. ]
RECURSIVE ReadBack(_, _, _, _)
ReadBack(c, read, i, cnt) ==
    IF i > Len(read) THEN c
    ELSE ReadBack(read_callback(c, read[i].line, read[i].ret, i - 1, cnt), read,
                  i + 1, cnt)

\* ccli_history_load_fd() on a descriptor at the start of the file: [c, ret]
ccli_history_load_fd(c, tag, f, chunk, wild) ==
    LET Loaded(r) == [c |-> ReadBack(c, r.read, 1, r.ret), ret |-> r.ret]
    IN  Loaded(cache_load_fd(f, CCLI_HISTORY_LINE_START, CCLI_HISTORY_LINE_END, tag,
                             chunk, wild))

---------------------------------------------------------------------------
(* SpecCache: sections saved to one cache file, by cache_save_fd() at its   *)
(* end and by cache_save_file(), and loaded from it by cache_load_fd().     *)
CacheBufSiz == 8
MaxCacheOps == 3
MaxCacheLines == 2
CacheTags == {<<CH_a>>, <<CH_b, CH_a>>}
CacheLines == {<<CH_e>>, <<CH_e, 120>>}
CacheSaves == UNION {[1 .. n -> CacheLines] : n \in 0 .. MaxCacheLines}

\* the bytes of the sections secs, each [tag, lines], as the format has them
RECURSIVE Render(_)
Render(secs) ==
    IF secs = <<>> THEN <<>>
    ELSE CCLI_HISTORY_LINE_START \o <<CH_SPACE>> \o Head(secs).tag \o <<CH_SPACE>>
         \o Decimal(Len(Head(secs).lines)) \o <<CH_NL>>
         \o write_lines(Head(secs).lines)
         \o CCLI_HISTORY_LINE_END \o <<CH_SPACE>> \o Head(secs).tag \o <<CH_NL>>
         \o Render(Tail(secs))

\* the sections secs without the one tagged tag
Without(secs, tag) == SelectSeq(secs, LAMBDA x : x.tag # tag)

\* the sections secs after lines were saved under tag
Resaved(secs, tag, lines) ==
    IF lines = <<>> THEN Without(secs, tag)
    ELSE Append(Without(secs, tag), [tag |-> tag, lines |-> lines])

CacheInit ==
    /\ Boot(CacheBufSiz)
    /\ schar = FALSE
    /\ pc = "setup"
    /\ ghost = [arg |-> <<>>, before |-> <<>>, old |-> <<>>, secs |-> <<>>]

CacheDo(name, f, ret, read, g) ==
    /\ file' = f
    /\ op' = name
    /\ opret' = ret
    /\ calls' = read
    /\ ghost' = g
    /\ UNCHANGED <<line, bufsiz, schar, tab, out, ccli, pc, srch, inq, eof>>

\* cache_save_fd() on a descriptor at the end of the stream, under a tag
\* the stream does not hold yet
FSaveFd ==
    \E tag \in CacheTags, lines \in CacheSaves :
        LET r == cache_save_fd(file, Len(file), CCLI_HISTORY_LINE_START,
                               CCLI_HISTORY_LINE_END, tag, lines)
        IN  /\ used.setup < MaxCacheOps
            /\ \A i \in 1 .. Len(ghost.secs) : ghost.secs[i].tag # tag
            /\ used' = [used EXCEPT !.setup = @ + 1]
            /\ CacheDo("save_fd", r.f, r.ret, <<>>,
                       [arg |-> tag, before |-> file, old |-> ghost.secs,
                        secs |-> Resaved(ghost.secs, tag, lines)])

FSaveFile ==
    \E tag \in CacheTags, lines \in CacheSaves :
        LET r == cache_save_file(file, CCLI_HISTORY_LINE_START, CCLI_HISTORY_LINE_END,
                                 tag, lines, bufsiz)
        IN  /\ used.setup < MaxCacheOps
            /\ used' = [used EXCEPT !.setup = @ + 1]
            /\ CacheDo("save_file", r.f, r.ret, <<>>,
                       [arg |-> tag, before |-> file, old |-> ghost.secs,
                        secs |-> Resaved(ghost.secs, tag, lines)])

FLoad ==
    \E tag \in CacheTags, wild \in WildCnts :
        LET r == cache_load_fd(file, CCLI_HISTORY_LINE_START, CCLI_HISTORY_LINE_END,
                               tag, bufsiz, wild)
        IN  /\ UNCHANGED used
            /\ CacheDo("load", file, r.ret, r.read, [ghost EXCEPT !.arg = tag])

CacheNext == FSaveFd \/ FSaveFile \/ FLoad

SpecCache == CacheInit /\ [][CacheNext]_vars

\* the lines saved under tag in the sections secs
LinesOf(secs, tag) ==
    IF \E i \in 1 .. Len(secs) : secs[i].tag = tag
    THEN secs[CHOOSE i \in 1 .. Len(secs) : secs[i].tag = tag].lines
    ELSE <<>>

\* C26: when the stream holds the sections saved, each under its own tag,
\* loading a tag hands the callback exactly the lines saved under that tag, in
\* the order saved, whatever sections come before or after it.
C26_SaveThenLoad ==
    (op = "load" /\ file = Render(ghost.secs)) =>
        [i \in 1 .. Len(calls) |-> calls[i].line] = LinesOf(ghost.secs, ghost.arg)

\* C27: cache_save_file() on a file that holds sections leaves the sections
\* of the other tags as they were, in their order, leaves no byte of the
\* section it replaces, and puts the new section behind them.
C27_SaveReplacesOnlyTag ==
    (op = "save_file" /\ ghost.before = Render(ghost.old)) =>
        file = Render(ghost.secs)

---------------------------------------------------------------------------
(* SpecExec: lines handed to execute() by ccli_execute(), with the hooks    *)
(* and one command registered in any order and the allocations of the      *)
(* tokeniser succeeding or failing.                                         *)
MaxExecOps == 3
ExecLines == {<<>>, <<CH_SPACE>>, <<CH_a>>, <<CH_b, CH_SPACE, CH_a>>}

ExecInit ==
    /\ Boot(RegBufSiz)
    /\ schar = TRUE
    /\ pc = "setup"
    /\ ghost = [arg |-> <<>>, mem |-> TRUE, hist |-> FALSE]

ExecDo(name, c, ret, called, written, g) ==
    /\ used.setup < MaxExecOps
    /\ used' = [used EXCEPT !.setup = @ + 1]
    /\ ccli' = c
    /\ op' = name
    /\ opret' = ret
    /\ calls' = called
    /\ out' = written
    /\ ghost' = g
    /\ UNCHANGED <<line, bufsiz, schar, file, tab, pc, srch, inq, eof>>

ERegister ==
    \E cb \in UserCallbacks, data \in RegData :
        LET r == ccli_register_command(ccli, <<CH_a>>, cb, data)
        IN  ExecDo("register", r.c, r.ret, <<>>, <<>>, ghost)

ERegisterDefault ==
    \E cb \in UserCallbacks, data \in RegData :
        LET r == ccli_register_default(ccli, cb, data)
        IN  ExecDo("register_default", r.c, r.ret, <<>>, <<>>, ghost)

ERegisterUnknown ==
    \E cb \in UserCallbacks, data \in RegData :
        LET r == ccli_register_unknown(ccli, cb, data)
        IN  ExecDo("register_unknown", r.c, r.ret, <<>>, <<>>, ghost)

EExecute ==
    \E s \in ExecLines, hist \in BOOLEAN, mem \in BOOLEAN :
        LET r == execute_parse(ccli, CStr(line_init_str(s, bufsiz)), hist, mem)
        IN  ExecDo("execute", r.c, r.ret, r.calls, r.out,
                   [arg |-> s, mem |-> mem, hist |-> hist])

ExecNext == ERegister \/ ERegisterDefault \/ ERegisterUnknown \/ EExecute

SpecExec == ExecInit /\ [][ExecNext]_vars

C30_CallbackArgc ==
    op = "execute" =>
        /\ \A i \in 1 .. Len(calls) : calls[i].argc >= 1
        /\ line_parse(ghost.arg).argc = 0 =>
              /\ Len(calls) = 1
              /\ calls[1].callback = ccli.enter.callback
              /\ calls[1].command = <<>>
              /\ calls[1].argc = 1
              /\ calls[1].argv = <<>>

---------------------------------------------------------------------------
(* The hooks ccli_alloc() installs, observed in the loop (Spec).           *)

\* the bytes written, as one string
RECURSIVE Written(_)
Written(strs) == IF strs = <<>> THEN <<>> ELSE Head(strs) \o Written(Tail(strs))

\* C31: until the application replaces them the hooks are the defaults: the
\* enter hook writes nothing and returns 0; the unknown hook writes
\* "Command not found: <name>\n" and returns 0; the interrupt hook writes
\* "^C\n" and returns 1, which ends the loop.
C31_DefaultHooks ==
    /\ used.setup = 0 =>
          /\ ccli.enter.callback = "enter_default"
          /\ ccli.unknown.callback = "unknown_default"
          /\ ccli.interrupt = "interrupt_default"
    /\ (op = "enter" /\ Len(calls) = 1 /\ calls[1].callback = "enter_default") =>
          /\ opret = 0
          /\ out = <<>>
          /\ pc = "loop"
    /\ (op = "enter" /\ Len(calls) = 1 /\ calls[1].callback = "unknown_default") =>
          /\ opret = 0
          /\ Written(out) = COMMAND_NOT_FOUND \o calls[1].command \o <<CH_NL>>
          /\ pc = "loop"
    /\ (op = "interrupt" /\ calls[1].callback = "interrupt_default") =>
          /\ opret = 1
          /\ Written(out) = INTR_ECHO
          /\ pc = "done"

\* Ctrl-C with the default interrupt hook has ended the loop
C31_Witness ==
    /\ op = "interrupt"
    /\ calls[1].callback = "interrupt_default"
    /\ Written(out) = INTR_ECHO
    /\ pc = "done"

\* C37: a byte 0x80..0xFF read in the edit loop is never taken for a control
\* key: the turn that reads it does not end the loop, call the interrupt
\* hook, move the cursor or the history position, or delete text.
C37_HighByteNotControl ==
    (pc \notin {"setup", "failed"} /\ op # "ccli_loop"
       /\ ghost.arg >= 128 /\ ghost.arg <= 255) =>
        /\ op \in {"insert", "unknown_char", "search_key"}
        /\ pc # "done"
        /\ calls = <<>>

---------------------------------------------------------------------------
(* ccli.c: the ring read_buf[] that check_for_ctrl_c() fills and           *)
(* read_char() drains, and page_stop(), which reads the descriptor itself. *)
(* In SpecPeek ccli holds the ring fields of struct ccli: [read_start,     *)
(* read_end, read_buf].  The n-th byte typed is either Ctrl-C or the       *)
(* letter CH_a + n, so that a byte tells when it arrived.                  *)

\* the size of read_buf[] (256 in ccli-local.h, smaller here so that the
\* ring fills) and the number of bytes typed
READ_BUF == 4
MaxPeekKeys == 5

inc_read_buf_start(c) ==
    [c EXCEPT !.read_start = IF @ = READ_BUF - 1 THEN 0 ELSE @ + 1]

inc_read_buf_end(c) ==
    [c EXCEPT !.read_end = IF @ = READ_BUF - 1 THEN 0 ELSE @ + 1]

read_buf_empty(c) == c.read_start = c.read_end

read_buf_full(c) ==
    IF c.read_start # 0 THEN c.read_end + 1 = c.read_start
    ELSE c.read_end = READ_BUF - 1

\* the bytes read_char() takes from the ring before it reads the descriptor
RECURSIVE RingBytes(_)
RingBytes(c) ==
    IF read_buf_empty(c) THEN <<>>
    ELSE <<c.read_buf[c.read_start]>> \o RingBytes(inc_read_buf_start(c))

\* the ring after read_char() took n bytes from it
RECURSIVE RingDrop(_, _)
RingDrop(c, n) ==
    IF n = 0 \/ read_buf_empty(c) THEN c ELSE RingDrop(inc_read_buf_start(c), n - 1)

\* check_for_ctrl_c() with the bytes pending on the descriptor:
\* [c, pending, ret]
check_for_ctrl_c(c, pending) ==
    IF pending = <<>> THEN [c |-> c, pending |-> pending, ret |-> FALSE]
    ELSE IF Head(pending) = 3
    THEN [c |-> c, pending |-> Tail(pending), ret |-> TRUE]
    ELSE IF ~read_buf_full(c)
    THEN [c |-> inc_read_buf_end([c EXCEPT !.read_buf[c.read_end] = Head(pending)]),
          pending |-> Tail(pending), ret |-> FALSE]
    ELSE [c |-> c, pending |-> Tail(pending), ret |-> FALSE]

\* page_stop() with a byte pending: [pending, ans]
page_stop(pending) == [pending |-> Tail(pending), ans |-> Head(pending)]

\* read_char() over the ring and the descriptor: [c, pending, r, taken]
read_char_ring(c, pending) ==
    LET Split(ring, r) ==
            LET n == Len(ring) + Len(pending) - Len(r.rest)
            IN  [c |-> RingDrop(c, n),
                 pending |-> SubSeq(pending, Len(pending) - Len(r.rest) + 1 +
                                    (IF n < Len(ring) THEN Len(ring) - n ELSE 0),
                                    Len(pending)),
                 r |-> r,
                 taken |-> SubSeq(ring \o pending, 1, n)]
    IN  Split(RingBytes(c), read_char(RingBytes(c) \o pending, FALSE))

\* ghost: typed counts the bytes typed; peeked lists the bytes that
\* check_for_ctrl_c() consumed and that are not Ctrl-C; delivered lists the
\* bytes handed to read_char() or page_stop(), in that order
PeekInit ==
    /\ bufsiz = RegBufSiz
    /\ line = line_init(RegBufSiz)
    /\ schar = FALSE
    /\ ccli = [read_start |-> 0, read_end |-> 0,
               read_buf |-> [i \in 0 .. READ_BUF - 1 |-> 0]]
    /\ pc = "loop"
    /\ srch = NoSearch
    /\ inq = <<>>
    /\ eof = FALSE
    /\ used = [setup |-> 0, keys |-> 0, eofs |-> 0]
    /\ tab = 0
    /\ out = <<>>
    /\ file = <<>>
    /\ op = "init"
    /\ opret = 0
    /\ calls = <<>>
    /\ ghost = [typed |-> 0, peeked |-> <<>>, delivered |-> <<>>]

PeekDo(name, c, pending, ret, g) ==
    /\ ccli' = c
    /\ inq' = pending
    /\ op' = name
    /\ opret' = ret
    /\ ghost' = g
    /\ UNCHANGED <<line, bufsiz, schar, file, tab, out, pc, srch, eof, used, calls>>

PType ==
    /\ ghost.typed < MaxPeekKeys
    /\ \E b \in {3, CH_a + ghost.typed} :
          PeekDo("type", ccli, Append(inq, b), 0, [ghost EXCEPT !.typed = @ + 1])

PCheck ==
    LET r == check_for_ctrl_c(ccli, inq)
    IN  PeekDo("check_for_ctrl_c", r.c, r.pending, IF r.ret THEN 1 ELSE 0,
               [ghost EXCEPT !.peeked = IF inq # <<>> /\ Head(inq) # 3
                                        THEN Append(@, Head(inq)) ELSE @])

PPageStop ==
    /\ inq # <<>>
    /\ LET r == page_stop(inq)
       IN  PeekDo("page_stop", ccli, r.pending, r.ans,
                  [ghost EXCEPT !.delivered = Append(@, r.ans)])

PReadChar ==
    LET r == read_char_ring(ccli, inq)
    IN  /\ r.r.status = "ok"
        /\ PeekDo("read_char", r.c, r.pending, r.r.ch,
                  [ghost EXCEPT !.delivered = @ \o r.taken])

PeekNext == PType \/ PCheck \/ PPageStop \/ PReadChar

SpecPeek == PeekInit /\ [][PeekNext]_vars

\* the positions of the byte b in the sequence s
Places(s, b) == {i \in 1 .. Len(s) : s[i] = b}

\* C32: a byte that check_for_ctrl_c() consumed and that is not Ctrl-C is
\* never lost: it waits in the ring or has been delivered, exactly once, and
\* no byte that arrived after it is delivered before it.
C32_PeekedByteNotLost ==
    \A i \in 1 .. Len(ghost.peeked) :
        LET b == ghost.peeked[i]
            waits == Places(RingBytes(ccli), b) # {}
            at == Places(ghost.delivered, b)
        IN  /\ Cardinality(at) + Cardinality(Places(RingBytes(ccli), b)) = 1
            /\ \A j \in 1 .. Len(ghost.delivered) :
                  (ghost.delivered[j] # 3 /\ ghost.delivered[j] > b) =>
                      (~waits /\ \A k \in at : k < j)

---------------------------------------------------------------------------
(* ccli.c: ccli_getchar(), applied to what the user typed (SpecGetc).      *)

MaxGetcLen == 3

\* ccli_getchar() with bytes pending: [status, ret, rest, err]; status is
\* "block" when it waits for more input
RECURSIVE ccli_getchar(_, _)
ccli_getchar(bytes, ended) ==
    LET Got(r) ==
            IF r.status # "ok"
            THEN [status |-> "block", ret |-> 0, rest |-> bytes, err |-> FALSE]
            ELSE IF r.ch = CHAR_INTR
            THEN [status |-> "ok", ret |-> 0, rest |-> r.rest, err |-> r.err]
            ELSE IF r.ch >= CHAR_IGNORE_START /\ r.ch <= CHAR_IGNORE_END
            THEN ccli_getchar(r.rest, ended)
            ELSE [status |-> "ok", ret |-> IF r.ch < 0 THEN 0 - 1 ELSE r.ch,
                  rest |-> r.rest, err |-> r.err]
    IN  Got(read_char(bytes, ended))

\* a letter, a space, Ctrl-A, Ctrl-C, Ctrl-U, DEL and 0xFF
GetcBytes == {CH_a, CH_SPACE, 1, 3, 21, 127, 255}
GetcInputs == UNION {[1 .. n -> GetcBytes] : n \in 0 .. MaxGetcLen}

\* ghost: typed is what the user typed, err says that the last call met the
\* end of the input
GetcInit ==
    /\ bufsiz = RegBufSiz
    /\ line = line_init(RegBufSiz)
    /\ schar \in BOOLEAN
    /\ ccli = ccli_alloc
    /\ pc = "loop"
    /\ srch = NoSearch
    /\ inq \in GetcInputs
    /\ eof = TRUE
    /\ used = [setup |-> 0, keys |-> 0, eofs |-> 0]
    /\ tab = 0
    /\ out = <<>>
    /\ file = <<>>
    /\ op = "init"
    /\ opret = 0
    /\ calls = <<>>
    /\ ghost = [typed |-> inq, taken |-> <<>>, err |-> FALSE]

GGetchar ==
    /\ pc = "loop"
    /\ LET Got(r) ==
               /\ r.status = "ok"
               /\ inq' = r.rest
               /\ op' = "ccli_getchar"
               /\ opret' = r.ret
               /\ pc' = IF r.err THEN "done" ELSE "loop"
               /\ ghost' = [ghost EXCEPT
                               !.taken = SubSeq(inq, 1, Len(inq) - Len(r.rest)),
                               !.err = r.err]
       IN  Got(ccli_getchar(inq, eof))
    /\ UNCHANGED <<line, bufsiz, schar, file, tab, out, ccli, srch, eof, used, calls>>

GetcNext == GGetchar

SpecGetc == GetcInit /\ [][GetcNext]_vars

\* C33: ccli_getchar() returns the character that was typed, never a
\* non-printable or white-space one; it returns 0 on Ctrl-C, and -1 only at
\* the end of the input or on a read error.
C33_GetcharReturns ==
    op = "ccli_getchar" =>
        /\ opret > 0 =>
              /\ isprint(opret)
              /\ ~isspace(opret)
              /\ ghost.taken # <<>>
              /\ opret = ghost.taken[Len(ghost.taken)]
        /\ opret = 0 => (ghost.taken # <<>> /\ ghost.taken[Len(ghost.taken)] = 3)
        /\ opret < 0 => (opret = 0 - 1 /\ ghost.err)

---------------------------------------------------------------------------
(* SpecSave: an application adds lines to the history, saves it to a file, *)
(* starts again with a new instance and loads the file.                    *)

MaxSaveOps == 4
SaveLines == {<<CH_a>>, EXIT_STR}
SaveTag == <<CH_b>>

\* ghost: before is the instance and old the file before the last operation
SaveInit ==
    /\ Boot(CacheBufSiz)
    /\ schar = FALSE
    /\ pc = "setup"
    /\ ghost = [before |-> ccli_alloc, old |-> <<>>]

SaveDo(name, c, f, ret) ==
    /\ used.setup < MaxSaveOps
    /\ used' = [used EXCEPT !.setup = @ + 1]
    /\ ccli' = c
    /\ file' = f
    /\ op' = name
    /\ opret' = ret
    /\ ghost' = [before |-> ccli, old |-> file]
    /\ UNCHANGED <<line, bufsiz, schar, tab, out, pc, srch, inq, eof, calls>>

SAdd == \E s \in SaveLines : SaveDo("add", history_add(ccli, s), file, 0)

\* ccli_history_save_fd() on a descriptor opened for appending
SSave ==
    LET r == ccli_history_save_fd(ccli, SaveTag, file, Len(file))
    IN  SaveDo("save", ccli, r.f, r.ret)

SLoad ==
    \E wild \in WildCnts :
        LET r == ccli_history_load_fd(ccli, SaveTag, file, bufsiz, wild)
        IN  SaveDo("load", r.c, file, r.ret)

\* the application starts again: ccli_alloc()
SRestart == SaveDo("alloc", ccli_alloc, file, 0)

SaveNext == SAdd \/ SSave \/ SLoad \/ SRestart

SpecSave == SaveInit /\ [][SaveNext]_vars


\* C34: a save returns the number of history lines it wrote, a load the
\* number of lines it read into the instance; each returns -1 on error.
C34_SaveLoadCounts ==
    /\ op = "save" =>
          /\ opret >= 0
          /\ opret = history_cnt(ccli)
          /\ file = ghost.old \o
                    (IF opret = 0 THEN <<>>
                     ELSE Render(<<[tag |-> SaveTag, lines |-> SavedLines(ccli)]>>))
    /\ op = "load" =>
          \/ opret = 0 - 1 /\ ccli = ghost.before
          \/ opret >= 0 /\ opret = ccli.history_size - ghost.before.history_size

---------------------------------------------------------------------------
(* SpecUnalias: aliases whose command registers or removes aliases.  The   *)
(* commands s and u have the callbacks exec_alias() and exec_unalias().    *)

MaxUnaliasOps == 4
CH_s == 115
CH_u == 117
\* "u a", "u b", "s e=b" and "s a=b"
UnaliasCommands ==
    {<<CH_u, CH_SPACE, CH_a>>, <<CH_u, CH_SPACE, CH_b>>,
     <<CH_s, CH_SPACE, CH_e, 61, CH_b>>, <<CH_s, CH_SPACE, CH_a, 61, CH_b>>}

UnaliasInit ==
    /\ Boot(RegBufSiz)
    /\ schar = FALSE
    /\ pc = "loop"
    /\ ghost = [arg |-> <<>>]

UnaliasDo(name, c, ret, called, arg) ==
    /\ ~ccli.ub
    /\ used.setup < MaxUnaliasOps
    /\ used' = [used EXCEPT !.setup = @ + 1]
    /\ ccli' = c
    /\ op' = name
    /\ opret' = ret
    /\ calls' = called
    /\ ghost' = [arg |-> arg]
    /\ UNCHANGED <<line, bufsiz, schar, file, tab, out, pc, srch, inq, eof>>

URegisterCommand ==
    \E cmd \in {[name |-> <<CH_s>>, cb |-> "exec_alias"],
                [name |-> <<CH_u>>, cb |-> "exec_unalias"]} :
        LET r == ccli_register_command(ccli, cmd.name, cmd.cb, NULLPTR)
        IN  UnaliasDo("register", r.c, r.ret, <<>>, cmd.name)

URegisterAlias ==
    \E name \in AliasNames, command \in UnaliasCommands :
        LET r == ccli_register_alias(ccli, name, command)
        IN  UnaliasDo("register_alias", r.c, r.ret, <<>>, name)

UDispatch ==
    \E l \in AliasNames :
        LET r == dispatch(ccli, l, FALSE)
        IN  UnaliasDo("execute", r.c, r.ret, r.calls, l)

UnaliasNext == URegisterCommand \/ URegisterAlias \/ UDispatch

SpecUnalias == UnaliasInit /\ [][UnaliasNext]_vars

\* C36: whenever no dispatch is in progress every alias has exec = false,
\* also after an expansion that registered or removed aliases, so that an
\* alias that was expanded can be expanded again.
C36_NoAliasLeftExecuting ==
    ~ccli.ub => \A i \in 1 .. Len(ccli.aliases) : ~ccli.aliases[i].exec

---------------------------------------------------------------------------
(* Command tables (SpecTable): ccli_register_command_table() and           *)
(* ccli_execute() on lines of the words "a" and "b".                       *)

MaxTableOps == 3
MaxTableWords == 3
MaxTableKids == 2
MaxTableDepth == 2

Node(name, cb, subs) == [name |-> name, command |-> cb, subcommands |-> subs]

\* a root without a name: a (no callback) with b -> a under it and a second,
\* shadowed b; and b
TableRoot ==
    Node(NIL, NULLCB,
         <<Node(<<CH_a>>, NULLCB,
                <<Node(<<CH_b>>, "cb_stay", <<Node(<<CH_a>>, "cb_quit", <<>>)>>),
                  Node(<<CH_b>>, "cb_quit", <<>>)>>),
           Node(<<CH_b>>, "cb_stay", <<>>)>>)

\* a root with a name and a callback
TableNamed == Node(<<CH_b>>, "cb_quit", <<Node(<<CH_a>>, "cb_stay", <<>>)>>)

\* a leaf without a callback: ccli_register_command_table() refuses it
TableBad == Node(NIL, NULLCB, <<Node(<<CH_a>>, NULLCB, <<>>)>>)

Tables == {TableRoot, TableNamed, TableBad}

\* the lines of one to MaxTableWords words "a" or "b" with a space between
TableLines ==
    LET words == UNION {[1 .. n -> {<<CH_a>>, <<CH_b>>}] : n \in 1 .. MaxTableWords}
    IN  {new_line(w[1], w, 2) : w \in words}

TableInit ==
    /\ Boot(RegBufSiz)
    /\ schar = FALSE
    /\ pc = "loop"
    /\ ghost = [arg |-> <<>>]

TableDo(name, c, ret, called, arg) ==
    /\ used.setup < MaxTableOps
    /\ used' = [used EXCEPT !.setup = @ + 1]
    /\ ccli' = c
    /\ op' = name
    /\ opret' = ret
    /\ calls' = called
    /\ out' = Echoed(called)
    /\ ghost' = [arg |-> arg]
    /\ UNCHANGED <<line, bufsiz, schar, file, tab, pc, srch, inq, eof>>

TableRegister ==
    \E table \in Tables, data \in RegData :
        LET r == ccli_register_command_table(ccli, table, data)
        IN  TableDo("register_command_table", r.c, r.ret, <<>>, <<>>)

TableExecute ==
    \E str \in TableLines :
        LET r == ccli_execute(ccli, str, FALSE, bufsiz)
        IN  TableDo("execute", r.c, r.ret, r.calls, str)

TableNext == TableRegister \/ TableExecute

SpecTable == TableInit /\ [][TableNext]_vars

\* the sequences of child indices a walk down a table can take
TablePaths ==
    UNION {[1 .. k -> 1 .. MaxTableKids] : k \in 0 .. MaxTableDepth}

\* the node at the end of the path p from node
RECURSIVE Walk(_, _)
Walk(node, p) ==
    IF p = <<>> THEN node ELSE Walk(node.subcommands[Head(p)], Tail(p))

\* p goes, level by level, to the first subcommand named by the next word
RECURSIVE Matches(_, _, _)
Matches(node, p, argv) ==
    \/ p = <<>>
    \/ /\ Len(argv) >= 2
       /\ Head(p) <= Len(node.subcommands)
       /\ node.subcommands[Head(p)].name = argv[2]
       /\ \A j \in 1 .. Head(p) - 1 : node.subcommands[j].name # argv[2]
       /\ Matches(node.subcommands[Head(p)], Tail(p), Tail(argv))

\* p matches and the next word, if there is one, names no subcommand of its end
Deepest(node, p, argv) ==
    /\ Matches(node, p, argv)
    /\ \/ Len(argv) < Len(p) + 2
       \/ \A i \in 1 .. Len(Walk(node, p).subcommands) :
              Walk(node, p).subcommands[i].name # argv[Len(p) + 2]

\* C40: a line whose first word is a command of a registered table goes to
\* the deepest node reached by matching argv[1], argv[2], ... in turn against
\* the subcommand names; that node's callback gets argc and argv offset by the
\* depth, so its argv[0] is the node's name; a node without a callback writes
\* a usage line and returns 0.
C40_TableDispatch ==
    (op = "execute" /\ calls # <<>> /\ calls[1].callback = "command_table_callback") =>
        LET rec == calls[1]
            Usage(k) ==
                \E i \in 1 .. Len(out) :
                    /\ out[i] = USAGE
                    /\ Len(out) >= i + k + 2
                    /\ \A j \in 1 .. k + 1 : out[i + j] = rec.argv[j] \o <<CH_SPACE>>
                    /\ out[Len(out)] = <<CH_NL>>
                    /\ \A j \in i + 1 .. Len(out) - 1 :
                          \A x \in 1 .. Len(out[j]) : out[j][x] # CH_NL
            Holds(n, k) ==
                IF n.command # NULLCB
                THEN /\ Len(calls) = 2
                     /\ calls[2].callback = n.command
                     /\ calls[2].argc = rec.argc - k
                     /\ calls[2].argv = SubSeq(rec.argv, k + 1, rec.argc)
                     /\ calls[2].argv[1] = n.name
                     /\ opret = UserCall(n.command)
                     /\ out = <<>>
                ELSE /\ Len(calls) = 1
                     /\ opret = 0
                     /\ Usage(k)
        IN  /\ rec.data.name = rec.argv[1]
            /\ \E p \in TablePaths : Deepest(rec.data, p, rec.argv)
            /\ \A p \in TablePaths :
                  Deepest(rec.data, p, rec.argv) => Holds(Walk(rec.data, p), Len(p))

\* "a b a" went two levels down: the callback of the node a under b was
\* given argc 1 and argv = <<"a">>
C40_Witness ==
    /\ op = "execute"
    /\ Len(calls) = 2
    /\ calls[1].callback = "command_table_callback"
    /\ calls[1].argc = 3
    /\ calls[2].callback = "cb_quit"
    /\ calls[2].argc = 1
    /\ calls[2].argv = <<<<CH_a>>>>
    /\ opret = 1

=============================================================================
